---- MODULE Spec2Model ----
(***************************************************************************)
(* A model of pomice: the Lavalink node connection (pomice/pool.py Node),  *)
(* the node pool (pomice/pool.py NodePool), the per-guild player           *)
(* (pomice/player.py Player), the version comparison                       *)
(* (pomice/models/version.py) and the earlier node implementation kept in  *)
(* the tree (pomice/node.py).                                              *)
(*                                                                         *)
(* asyncio runs one task at a time and switches only at an await that      *)
(* suspends, so every action below is one run of a coroutine from one      *)
(* suspension point to the next.                                           *)
(***************************************************************************)
EXTENDS Integers, Sequences, FiniteSets, TLC

\* ------------------------------------------------------------------ bounds
\* how many times a remote node may drop an open websocket
MaxCloses == 1
\* how many session ids the remote nodes hand out in "ready" messages before
\* an id comes round again; two sessions in a row never share an id
MaxSession == 2
\* how many connect(reconnect=True) tasks may be pending for one node
MaxConnTasks == 1
\* how many delay() calls of one ExponentialBackoff are counted
MaxCalls == 12
\* how many handler tasks of one node may wait to run
MaxMsgs == 2

\* ------------------------------------------------------------- the universe
Nodes == {"n1", "n2"}
Guilds == {"g1", "g2"}
\* None for a node reference; None for a session id, which is 1, 2, .. when set
NoNode == "None"
NoSession == 0
\* max_size=None of Queue (queue.py:21): no limit
NoMax == 0
\* the base of the backoff of Node._listen (pool.py:340)
ListenBase == 7
\* the Track objects the application plays: one a node returned, one made
\* from a Spotify or Apple Music song that has an ISRC, one from a song that
\* has none
Tracks == {"resolved", "isrc", "noisrc"}
\* NodePool.create_node calls in flight and the identifiers they are given
Calls == {"c1", "c2"}
Identifiers == {"a", "b"}
\* the largest time a TCP connect to a remote node takes
MaxLatency == 1
\* the largest max_size a Queue is made with, the longest a Queue without
\* max_size grows, and the number of tracks put into a Queue
MaxSize == 2
MaxQueue == 3
MaxPuts == 3

VARIABLES
    \* NodePool._nodes (pool.py:933): the identifiers in insertion order
    _nodes,
    \* Node fields (pool.py:126-164), one entry per Node object
    _fallback, _websocket, _task, _session_id, _available, available,
    _version, _session, _players,
    \* what the remote node is and what it has sent and not yet delivered
    remote_up, remote_version, ws_ready, next_sid, closes,
    \* coroutines in progress: NodePool.create_node / Node.connect, the
    \* tasks made by loop.create_task, Node.disconnect
    create_pc, connect_tasks, destroy_tasks,
    switch_pc, switch_new, switch_todo,
    disc_pc, disc_todo, disc_log,
    \* Player fields (player.py:148-167), one entry per guild
    pstate, _node, _player_endpoint_uri, _voice_state, _current, _is_connected,
    \* the calls of Node.send made by the last step, and how the last
    \* operation ended
    rest, result,
    \* what the listen loop saw when the socket closed
    closed_with, attempt_failed,
    \* pomice/node.py Node: websocket, listen tasks, connect tasks
    lg_ws, lg_listeners, lg_connects, lg_closes,
    \* Track fields (objects.py:40-50), one entry per Track object
    original, track_id,
    \* what a TCP connect to each remote node takes now (utils.py:221-230)
    latency,
    \* the "connected" value of the last playerUpdate each player received
    last_update,
    \* NodePool.create_node calls that may share an identifier: where each
    \* call is, the identifier it was given, and the Node object (named by
    \* the call that made it) NodePool._nodes holds under each identifier
    cn_pc, cn_identifier, cn_nodes,
    \* more Player fields (player.py:149, 155-157), one entry per guild: the
    \* list of Filters, the volume, the paused flag, whether self.channel is
    \* a channel (TRUE) or None
    _filters, _volume, _paused, self_channel,
    \* a Queue (queue.py:25-29); the tracks put stored and the tracks get
    \* returned, in order, where a history is kept; the index of _queue
    \* from which get or set_loop_mode last took _current_item, while no
    \* track of the queue was moved or removed since
    _queue, max_size, _overflow, _loop_mode, _current_item, put_log, get_log,
    cursor_at,
    \* an ExponentialBackoff (utils.py:48-59), the delay its last delay()
    \* returned, and how many delay() calls followed each other with no
    \* more than _reset_time between them
    backoff, retry, streak,
    \* per node: the upper end of the range the listen loop drew its last
    \* reconnect delay from (pool.py:340-341), 0 before the first
    retry_window,
    \* per node: the messages whose _handle_ws_msg task the listen loop has
    \* made (pool.py:329) and that has not run yet, oldest first
    ws_tasks

nodeVars == <<_fallback, _websocket, _task, _session_id, _available, available,
              _version, _session, _players>>
remoteVars == <<remote_up, remote_version, ws_ready, next_sid, closes>>
taskVars == <<create_pc, connect_tasks, destroy_tasks, switch_pc, switch_new,
              switch_todo, disc_pc, disc_todo, disc_log>>
playerVars == <<pstate, _node, _player_endpoint_uri, _voice_state, _current,
                _is_connected>>
histVars == <<closed_with, attempt_failed>>
legacyVars == <<lg_ws, lg_listeners, lg_connects, lg_closes>>
trackVars == <<original, track_id>>
callVars == <<cn_pc, cn_identifier, cn_nodes>>
mirrorVars == <<_filters, _volume, _paused, self_channel>>
queueVars == <<_queue, max_size, _overflow, _loop_mode, _current_item, put_log,
               get_log, cursor_at>>
backoffVars == <<backoff, retry, streak, retry_window>>
extraVars == <<trackVars, latency, last_update, callVars, mirrorVars, queueVars,
               backoffVars, ws_tasks>>
\* extraVars without self_channel
otherVars == <<trackVars, latency, last_update, callVars, _filters, _volume,
               _paused, queueVars, backoffVars, ws_tasks>>
vars == <<_nodes, nodeVars, remoteVars, taskVars, playerVars, rest, result,
          histVars, legacyVars, extraVars>>

\* ---------------------------------------------------------------- versions
\* the largest number a component of a version string takes
MaxComponent == 8
Components == 0..MaxComponent
\* A version string as /version returns it: the dot-separated numbers it
\* starts with (none when it does not start with a digit) and what follows.
VersionStrings ==
    [nums : {<<>>} \cup {<<a>> : a \in Components}
              \cup {<<a, b>> : a \in Components, b \in Components}
              \cup {<<a, b, c>> : a \in Components, b \in Components, c \in Components},
     suffix : {"", "-SNAPSHOT"}]
Str(nums) == [nums |-> nums, suffix |-> ""]

\* LavalinkVersion(major, minor, fix), a NamedTuple (version.py:6-9)
LavalinkVersion(major, minor, fix) == <<major, minor, fix>>

\* LavalinkVersion.__lt__ (version.py:19-29)
version_lt(self, other) ==
    IF self[1] > other[1] THEN FALSE
    ELSE IF self[2] > other[2] THEN FALSE
    ELSE IF self[3] > other[3] THEN FALSE
    ELSE TRUE

\* VERSION_REGEX.match(version) (pool.py:57, 235): the string must start with
\* a digit; .groups() with int(group or 0) (pool.py:243-248)
version_matches(version) == Len(version.nums) > 0
version_groups(version) ==
    LavalinkVersion(version.nums[1],
                    IF Len(version.nums) >= 2 THEN version.nums[2] ELSE 0,
                    IF Len(version.nums) >= 3 THEN version.nums[3] ELSE 0)

\* Node._handle_version_check (pool.py:229-258): the version the node keeps
\* and whether LavalinkVersionIncompatible is raised
_handle_version_check(version) ==
    IF version.suffix = "-SNAPSHOT"
    THEN [version |-> LavalinkVersion(4, 0, 0), raised |-> FALSE, parsed |-> FALSE]
    ELSE IF ~version_matches(version)
    THEN [version |-> LavalinkVersion(0, 0, 0), raised |-> TRUE, parsed |-> FALSE]
    ELSE [version |-> version_groups(version),
          raised |-> version_lt(version_groups(version), LavalinkVersion(3, 7, 0)),
          parsed |-> TRUE]

\* ------------------------------------------------------------------- REST
\* Node.send without the guard on _available
send_unguarded(n, ignore_if_available) ==
    IF _session[n] # "open" THEN "RuntimeError"
    ELSE IF remote_up[n] THEN "ok"
    ELSE "ClientConnectorError"

\* Node.send (pool.py:377-434): how a call ends. The guard on _available
\* comes first; then the request goes out on the aiohttp session.
send(n, ignore_if_available) ==
    IF ~ignore_if_available /\ ~_available[n] THEN "NodeNotAvailable"
    ELSE IF _session[n] # "open" THEN "RuntimeError"
    ELSE IF remote_up[n] THEN "ok"
    ELSE "ClientConnectorError"

\* whether the call put an HTTP request on the wire
Issued(call) == call.outcome \in {"ok", "ClientConnectorError"}

\* one call of Node.send on a player endpoint: path is
\* sessions/<sid>/players/<guild>
Call(g, n, sid, method, kind, data) ==
    [node |-> n, method |-> method, kind |-> kind, guild |-> g,
     sid |-> sid, data |-> data, outcome |-> send(n, FALSE)]
\* the same with the player's _player_endpoint_uri as it is now
PlayerCall(g, n, method, kind, data) ==
    Call(g, n, _player_endpoint_uri[g], method, kind, data)

NoVoice == [sessionId |-> "absent", event |-> "absent"]

\* ------------------------------------------------------------------- Init
\* the versions the remote nodes of the connection model run
PoolVersions == {Str(<<3, 7, 1>>), Str(<<3, 0, 0>>)}

InitNodes ==
    /\ _nodes = <<>>
    /\ _fallback = [n \in Nodes |-> FALSE]
    /\ _websocket = [n \in Nodes |-> "unset"]
    /\ _task = [n \in Nodes |-> "None"]
    /\ _session_id = [n \in Nodes |-> NoSession]
    /\ _available = [n \in Nodes |-> FALSE]
    /\ available = [n \in Nodes |-> "unset"]
    /\ _version = [n \in Nodes |-> LavalinkVersion(0, 0, 0)]
    /\ _session = [n \in Nodes |-> "None"]
    /\ _players = [n \in Nodes |-> {}]
    /\ ws_ready = [n \in Nodes |-> NoSession]
    /\ next_sid = 1
    /\ closes = 0
    /\ create_pc = [n \in Nodes |-> "idle"]
    /\ connect_tasks = [n \in Nodes |-> 0]
    /\ destroy_tasks = {}
    /\ switch_pc = [n \in Nodes |-> "none"]
    /\ switch_new = [n \in Nodes |-> NoNode]
    /\ switch_todo = [n \in Nodes |-> {}]
    /\ disc_pc = [n \in Nodes |-> "none"]
    /\ disc_todo = [n \in Nodes |-> {}]
    /\ disc_log = [n \in Nodes |-> <<>>]
    /\ closed_with = [n \in Nodes |-> {}]
    /\ attempt_failed = [n \in Nodes |-> FALSE]

InitPlayers ==
    /\ pstate = [g \in Guilds |-> "none"]
    /\ _node = [g \in Guilds |-> NoNode]
    /\ _player_endpoint_uri = [g \in Guilds |-> NoSession]
    /\ _voice_state = [g \in Guilds |-> NoVoice]
    /\ _current = [g \in Guilds |-> "None"]
    /\ _is_connected = [g \in Guilds |-> FALSE]
    /\ rest = <<>>
    /\ result = [op |-> "none", who |-> "-", res |-> "ok"]

InitLegacy ==
    /\ lg_ws = "None"
    /\ lg_listeners = [recv |-> 0, sleep |-> 0]
    /\ lg_connects = 0
    /\ lg_closes = 0

\* Track.__init__ (objects.py:40-50): original is None for a Spotify or
\* Apple Music track and the track itself otherwise; track_id is the id
\* the track was made with
InitTracks ==
    /\ original = [t \in Tracks |-> IF t = "resolved" THEN "self" ELSE "None"]
    /\ track_id = [t \in Tracks |-> t]

\* Player.__init__ (player.py:149, 155-157)
InitMirror ==
    /\ _filters = [g \in Guilds |-> <<>>]
    /\ _volume = [g \in Guilds |-> 100]
    /\ _paused = [g \in Guilds |-> FALSE]
    /\ self_channel = [g \in Guilds |-> TRUE]

\* no index of a list
NoIndex == -1
\* Queue.__init__ (queue.py:19-29): max_size and overflow are the caller's
InitQueue(sizes, overflows) ==
    /\ _queue = <<>>
    /\ max_size \in sizes
    /\ _overflow \in overflows
    /\ _loop_mode = "None"
    /\ _current_item = "None"
    /\ put_log = <<>>
    /\ get_log = <<>>
    /\ cursor_at = NoIndex

\* ExponentialBackoff.__init__ (utils.py:48-59); _last_invocation is the
\* time of the construction
ExponentialBackoff(base) ==
    [_base |-> base, _exp |-> 0, _max |-> 10, _reset_time |-> base * 2^11]

Min(a, b) == IF a < b THEN a ELSE b

\* a delay that never starts the exponent again
Delayed_no_reset(bo, interval) ==
    [bo EXCEPT !._exp = Min(@ + 1, bo._max)]

\* ExponentialBackoff.delay (utils.py:61-69): the object after the call;
\* interval is invocation - self._last_invocation, the time since the
\* previous call, or since the construction for the first call
Delayed(bo, interval) ==
    [bo EXCEPT !._exp = Min((IF interval > bo._reset_time THEN 0 ELSE @) + 1, bo._max)]

\* the upper end of the range delay draws from (utils.py:70)
Window(bo) == bo._base * 2^(bo._exp)

InitBackoff(bases) ==
    /\ backoff \in {ExponentialBackoff(base) : base \in bases}
    /\ retry = 0
    /\ streak = 0
    /\ retry_window = [n \in Nodes |-> 0]

InitObjects ==
    /\ InitTracks
    /\ latency = [n \in Nodes |-> 0]
    /\ last_update = [g \in Guilds |-> "none"]
    /\ cn_pc = [c \in Calls |-> "idle"]
    /\ cn_identifier = [c \in Calls |-> "None"]
    /\ cn_nodes = [i \in Identifiers |-> "None"]
    /\ InitMirror
    /\ ws_tasks = [n \in Nodes |-> <<>>]

\* the application's objects other than nodes and players; its Queue is
\* made as Queue()
InitExtra ==
    /\ InitQueue({NoMax}, {TRUE})
    /\ InitObjects
    /\ InitBackoff({ListenBase})

\* the remote nodes of NS are as the environment has them; the others are
\* up and run a supported version
InitRemote(NS, versions) ==
    /\ remote_up \in {f \in [Nodes -> BOOLEAN] : \A n \in Nodes \ NS : f[n]}
    /\ remote_version \in {f \in [Nodes -> versions \cup {Str(<<3, 7, 1>>)}] :
                             \A n \in Nodes \ NS : f[n] = Str(<<3, 7, 1>>)}

Init ==
    /\ InitNodes /\ InitPlayers /\ InitLegacy /\ InitExtra
    /\ InitRemote({"n1"}, PoolVersions)

\* identifier in NodePool._nodes
InPool(n) == \E i \in 1..Len(_nodes) : _nodes[i] = n
\* Node.is_connected (pool.py:189-192)
is_connected(n) == _websocket[n] = "open"

Result(op, who, res) == [op |-> op, who |-> who, res |-> res]
\* a step of a task or of the remote node returns nothing to a caller
NoResult == Result("none", "-", "ok")

\* ------------------------------------------------- NodePool.create_node
\* a create_node that stores the node in the pool before it awaits
\* Node.connect
CreateNodeStart_registers_first(n, fallback) ==
    /\ create_pc[n] \in {"idle", "failed", "done"}
    /\ create_pc[n] = "done" => InPool(n)
    /\ create_pc[n] = "failed" => \A g \in Guilds : _node[g] # n
    /\ IF InPool(n)
       THEN /\ result' = NoResult
            /\ UNCHANGED <<_nodes, nodeVars, create_pc>>
       ELSE /\ _nodes' = Append(_nodes, n)
            /\ _fallback' = [_fallback EXCEPT ![n] = fallback]
            /\ _websocket' = [_websocket EXCEPT ![n] = "unset"]
            /\ _task' = [_task EXCEPT ![n] = "None"]
            /\ _session_id' = [_session_id EXCEPT ![n] = NoSession]
            /\ _available' = [_available EXCEPT ![n] = FALSE]
            /\ available' = [available EXCEPT ![n] = "unset"]
            /\ _version' = [_version EXCEPT ![n] = LavalinkVersion(0, 0, 0)]
            /\ _session' = [_session EXCEPT ![n] = "open"]
            /\ _players' = [_players EXCEPT ![n] = {}]
            /\ create_pc' = [create_pc EXCEPT ![n] = "version"]
            /\ result' = NoResult
    /\ rest' = <<>>
    /\ UNCHANGED <<remoteVars, connect_tasks, destroy_tasks, switch_pc,
                   switch_new, switch_todo, disc_pc, disc_todo, disc_log,
                   playerVars, histVars, legacyVars, extraVars>>

\* NodePool.create_node up to the first await of Node.connect
\* (pool.py:1022-1046, 102-181, 440-447): the duplicate check, the Node
\* object, the aiohttp session.
CreateNodeStart(n, fallback) ==
    /\ create_pc[n] \in {"idle", "failed", "done"}
    /\ create_pc[n] = "done" => InPool(n)
    \* a Node object made anew is referred to by no player yet
    /\ create_pc[n] = "failed" => \A g \in Guilds : _node[g] # n
    /\ IF InPool(n)
       THEN /\ result' = NoResult
            /\ UNCHANGED <<nodeVars, create_pc>>
       ELSE /\ _fallback' = [_fallback EXCEPT ![n] = fallback]
            /\ _websocket' = [_websocket EXCEPT ![n] = "unset"]
            /\ _task' = [_task EXCEPT ![n] = "None"]
            /\ _session_id' = [_session_id EXCEPT ![n] = NoSession]
            /\ _available' = [_available EXCEPT ![n] = FALSE]
            /\ available' = [available EXCEPT ![n] = "unset"]
            /\ _version' = [_version EXCEPT ![n] = LavalinkVersion(0, 0, 0)]
            /\ _session' = [_session EXCEPT ![n] = "open"]
            /\ _players' = [_players EXCEPT ![n] = {}]
            /\ create_pc' = [create_pc EXCEPT ![n] = "version"]
            /\ result' = NoResult
    /\ rest' = <<>>
    /\ UNCHANGED <<_nodes, remoteVars, connect_tasks, destroy_tasks, switch_pc,
                   switch_new, switch_todo, disc_pc, disc_todo, disc_log,
                   playerVars, histVars, legacyVars, extraVars>>

\* Node.connect, reconnect=False: the version probe returns
\* (pool.py:450-459, 495-498)
VersionProbe(n) ==
    /\ create_pc[n] = "version"
    /\ rest' = <<[node |-> n, method |-> "GET", kind |-> "version", guild |-> "-",
                  sid |-> NoSession, data |-> <<>>, outcome |-> send(n, TRUE)]>>
    /\ IF send(n, TRUE) # "ok"
       THEN /\ create_pc' = [create_pc EXCEPT ![n] = "failed"]
            /\ result' = NoResult
            /\ UNCHANGED <<_version, _available>>
       ELSE LET chk == _handle_version_check(remote_version[n]) IN
            /\ _version' = [_version EXCEPT ![n] =
                              IF version_matches(remote_version[n])
                                 \/ remote_version[n].suffix = "-SNAPSHOT"
                              THEN chk.version ELSE _version[n]]
            /\ _available' = [_available EXCEPT ![n] =
                                IF chk.raised THEN FALSE ELSE _available[n]]
            /\ create_pc' = [create_pc EXCEPT ![n] =
                               IF chk.raised THEN "failed" ELSE "websocket"]
            /\ result' = NoResult
    /\ UNCHANGED <<_nodes, _fallback, _websocket, _task, _session_id, available,
                   _session, _players, remoteVars, connect_tasks, destroy_tasks,
                   switch_pc, switch_new, switch_todo, disc_pc, disc_todo,
                   disc_log, playerVars, histVars, legacyVars, extraVars>>

\* Node.connect, reconnect=False: client.connect returns (pool.py:466-506),
\* and NodePool.create_node registers the node (pool.py:1047-1048). The
\* remote node greets the new connection with a "ready" message.
Handshake(n) ==
    /\ create_pc[n] = "websocket"
    /\ rest' = <<>>
    /\ IF ~remote_up[n]
       THEN /\ create_pc' = [create_pc EXCEPT ![n] = "failed"]
            /\ result' = NoResult
            /\ UNCHANGED <<_nodes, _websocket, _task, _available, ws_ready, next_sid>>
       ELSE /\ _websocket' = [_websocket EXCEPT ![n] = "open"]
            /\ _task' = [_task EXCEPT ![n] = IF _task[n] = "None" THEN "recv" ELSE _task[n]]
            /\ _available' = [_available EXCEPT ![n] = TRUE]
            /\ _nodes' = IF InPool(n) THEN _nodes ELSE Append(_nodes, n)
            /\ ws_ready' = [ws_ready EXCEPT ![n] = next_sid]
            /\ next_sid' = (next_sid % MaxSession) + 1
            /\ create_pc' = [create_pc EXCEPT ![n] = "done"]
            /\ result' = NoResult
    /\ UNCHANGED <<_fallback, _session_id, available, _version, _session, _players,
                   remote_up, remote_version, closes, connect_tasks, destroy_tasks,
                   switch_pc, switch_new, switch_todo, disc_pc, disc_todo,
                   disc_log, playerVars, histVars, legacyVars, extraVars>>

\* ------------------------------------------------------ the receive loop
\* Node._listen receives the "ready" message and Node._handle_ws_msg records
\* the session id (pool.py:325-329, 360-362); without a resume key
\* _configure_resuming returns at once (pool.py:302-303).
HandleReady(n) ==
    /\ _task[n] = "recv"
    /\ _websocket[n] = "open"
    /\ ws_ready[n] # NoSession
    /\ _session_id' = [_session_id EXCEPT ![n] = ws_ready[n]]
    /\ ws_ready' = [ws_ready EXCEPT ![n] = NoSession]
    /\ rest' = <<>>
    /\ result' = NoResult
    /\ UNCHANGED <<_nodes, _fallback, _websocket, _task, _available, available,
                   _version, _session, _players, remote_up, remote_version,
                   next_sid, closes, taskVars, playerVars, histVars, legacyVars, extraVars>>

\* the remote node, or the network, drops the open websocket; the remote
\* node may stay reachable or not
WsClose(n, up) ==
    /\ _websocket[n] = "open"
    /\ closes < MaxCloses
    /\ closes' = closes + 1
    /\ _websocket' = [_websocket EXCEPT ![n] = "closed"]
    /\ ws_ready' = [ws_ready EXCEPT ![n] = NoSession]
    /\ remote_up' = [remote_up EXCEPT ![n] = up]
    /\ rest' = <<>>
    /\ result' = NoResult
    /\ UNCHANGED <<_nodes, _fallback, _task, _session_id, _available, available,
                   _version, _session, _players, remote_version, next_sid,
                   taskVars, playerVars, histVars, legacyVars, extraVars>>

\* the remote node becomes reachable again
RemoteUp(n) ==
    /\ ~remote_up[n]
    /\ remote_up' = [remote_up EXCEPT ![n] = TRUE]
    /\ rest' = <<>>
    /\ result' = NoResult
    /\ UNCHANGED <<_nodes, nodeVars, remote_version, ws_ready, next_sid, closes,
                   taskVars, playerVars, histVars, legacyVars, extraVars>>

\* Node._listen, except ConnectionClosed, up to asyncio.sleep (pool.py:330-346):
\* a destroy task per bound player, the node switch task when fallback is
\* set, then the backoff sleep, its delay drawn from a backoff made for
\* this close (pool.py:340-341). A switch task still running is not doubled.
ListenOnClose(n) ==
    /\ _task[n] = "recv"
    /\ _websocket[n] = "closed"
    /\ destroy_tasks' = destroy_tasks \cup _players[n]
    /\ switch_pc' = [switch_pc EXCEPT ![n] =
                       IF _fallback[n] /\ switch_pc[n] \in {"none", "done", "failed"}
                       THEN "pending" ELSE switch_pc[n]]
    /\ _task' = [_task EXCEPT ![n] = "sleep"]
    /\ closed_with' = [closed_with EXCEPT ![n] = @ \cup _players[n]]
    /\ retry_window' = [retry_window EXCEPT ![n] =
                           Window(Delayed(ExponentialBackoff(ListenBase), 0))]
    /\ rest' = <<>>
    /\ result' = NoResult
    /\ UNCHANGED <<_nodes, _fallback, _websocket, _session_id, _available, available,
                   _version, _session, _players, remoteVars, create_pc,
                   connect_tasks, switch_new, switch_todo, disc_pc, disc_todo,
                   disc_log, playerVars, attempt_failed, legacyVars, trackVars,
                   latency, last_update, callVars, mirrorVars, queueVars, backoff,
                   retry, streak, ws_tasks>>

\* a listen loop that makes one reconnect task after the sleep and ends
ListenWake_once(n) ==
    /\ _task[n] = "sleep"
    /\ ~is_connected(n) => connect_tasks[n] < MaxConnTasks
    /\ connect_tasks' = [connect_tasks EXCEPT ![n] =
                           IF is_connected(n) THEN @ ELSE @ + 1]
    /\ _task' = [_task EXCEPT ![n] = "ended"]
    /\ rest' = <<>>
    /\ result' = NoResult
    /\ UNCHANGED <<_nodes, _fallback, _websocket, _session_id, _available, available,
                   _version, _session, _players, remoteVars, create_pc,
                   destroy_tasks, switch_pc, switch_new, switch_todo, disc_pc,
                   disc_todo, disc_log, playerVars, histVars, legacyVars, extraVars>>

\* Node._listen after the backoff sleep (pool.py:346-349): a reconnect task
\* when the node is not connected, then back to recv
ListenWake(n) ==
    /\ _task[n] = "sleep"
    /\ ~is_connected(n) => connect_tasks[n] < MaxConnTasks
    /\ connect_tasks' = [connect_tasks EXCEPT ![n] =
                           IF is_connected(n) THEN @ ELSE @ + 1]
    /\ _task' = [_task EXCEPT ![n] = "recv"]
    /\ rest' = <<>>
    /\ result' = NoResult
    /\ UNCHANGED <<_nodes, _fallback, _websocket, _session_id, _available, available,
                   _version, _session, _players, remoteVars, create_pc,
                   destroy_tasks, switch_pc, switch_new, switch_todo, disc_pc,
                   disc_todo, disc_log, playerVars, histVars, legacyVars, extraVars>>

\* Node.connect(reconnect=True), run as a task (pool.py:466-506): the
\* version is not probed again; client.connect fails or returns; with
\* players bound the loop at pool.py:475-477 calls
\* Player._refresh_endpoint_uri, which player.py does not define, and the
\* AttributeError ends the task before pool.py:484-487.
Reconnect(n) ==
    /\ connect_tasks[n] > 0
    /\ connect_tasks' = [connect_tasks EXCEPT ![n] = @ - 1]
    /\ rest' = <<>>
    /\ IF ~remote_up[n]
       THEN /\ attempt_failed' = [attempt_failed EXCEPT ![n] = TRUE]
            /\ result' = NoResult
            /\ UNCHANGED <<_websocket, _task, _available, ws_ready, next_sid>>
       ELSE /\ _websocket' = [_websocket EXCEPT ![n] = "open"]
            /\ ws_ready' = [ws_ready EXCEPT ![n] = next_sid]
            /\ next_sid' = (next_sid % MaxSession) + 1
            /\ IF _players[n] # {}
               THEN /\ result' = NoResult
                    /\ UNCHANGED <<_task, _available>>
               ELSE /\ _task' = [_task EXCEPT ![n] =
                                   IF _task[n] = "None" THEN "recv" ELSE _task[n]]
                    /\ _available' = [_available EXCEPT ![n] = TRUE]
                    /\ result' = NoResult
            /\ UNCHANGED attempt_failed
    /\ UNCHANGED <<_nodes, _fallback, _session_id, available, _version, _session,
                   _players, remote_up, remote_version, closes, create_pc,
                   destroy_tasks, switch_pc, switch_new, switch_todo, disc_pc,
                   disc_todo, disc_log, playerVars, closed_with, legacyVars, extraVars>>

\* ----------------------------------------------------------------- Player
VoiceSessions == {"vs1", "vs2"}
VoiceEvents == {"ev1", "ev2"}

\* no coroutine in progress still holds the Player object of guild g
Unreferenced(g) ==
    /\ g \notin destroy_tasks
    /\ \A n \in Nodes : g \notin disc_todo[n] /\ g \notin switch_todo[n]
    /\ \A n \in Nodes : g \notin _players[n]

\* a selection that takes every node of the pool, whatever its _available
available_nodes_unfiltered == {n \in Nodes : InPool(n)}

\* NodePool.get_node() without identifier (pool.py:985-993): the nodes
\* random.choice picks from
available_nodes == {n \in Nodes : InPool(n) /\ _available[n]}

\* Player.__init__ (player.py:141-167): node is the node= argument or
\* NodePool.get_node(); the endpoint uri is built from that node's
\* session id as it is now.
PlayerInit(g, arg) ==
    /\ pstate[g] \in {"none", "destroyed"}
    /\ Unreferenced(g)
    /\ arg # NoNode => create_pc[arg] # "idle"
    /\ rest' = <<>>
    /\ IF arg = NoNode /\ available_nodes = {}
       THEN /\ result' = Result("Player", g, "NoNodesAvailable")
            /\ UNCHANGED playerVars
       ELSE \E n \in (IF arg = NoNode THEN available_nodes ELSE {arg}) :
            /\ _node' = [_node EXCEPT ![g] = n]
            /\ _player_endpoint_uri' = [_player_endpoint_uri EXCEPT ![g] = _session_id[n]]
            /\ _voice_state' = [_voice_state EXCEPT ![g] = NoVoice]
            /\ _current' = [_current EXCEPT ![g] = "None"]
            /\ _is_connected' = [_is_connected EXCEPT ![g] = FALSE]
            /\ pstate' = [pstate EXCEPT ![g] = "created"]
            /\ result' = Result("Player", g, "ok")
    \* a Player object made anew has received no playerUpdate
    /\ last_update' = IF arg = NoNode /\ available_nodes = {} THEN last_update
                      ELSE [last_update EXCEPT ![g] = "none"]
    /\ LET made == ~(arg = NoNode /\ available_nodes = {}) IN
       /\ _filters' = IF made THEN [_filters EXCEPT ![g] = <<>>] ELSE _filters
       /\ _volume' = IF made THEN [_volume EXCEPT ![g] = 100] ELSE _volume
       /\ _paused' = IF made THEN [_paused EXCEPT ![g] = FALSE] ELSE _paused
       /\ self_channel' = IF made THEN [self_channel EXCEPT ![g] = TRUE]
                          ELSE self_channel
    /\ UNCHANGED <<_nodes, nodeVars, remoteVars, taskVars, histVars, legacyVars,
                   trackVars, latency, callVars, queueVars, backoffVars, ws_tasks>>

\* Player.connect (player.py:389-398)
PlayerConnect(g) ==
    /\ pstate[g] = "created"
    /\ _players' = [_players EXCEPT ![_node[g]] = @ \cup {g}]
    /\ _is_connected' = [_is_connected EXCEPT ![g] = TRUE]
    /\ pstate' = [pstate EXCEPT ![g] = "bound"]
    /\ rest' = <<>>
    /\ result' = NoResult
    /\ UNCHANGED <<_nodes, _fallback, _websocket, _task, _session_id, _available,
                   available, _version, _session, remoteVars, taskVars, _node,
                   _player_endpoint_uri, _voice_state, _current, histVars,
                   legacyVars, extraVars>>

\* Player.set_pause, set_volume, seek, stop: one PATCH on the player's
\* endpoint (player.py:400-408, 551-575)
PlayerUpdate(g) ==
    /\ pstate[g] \in {"created", "bound"}
    /\ rest' = <<PlayerCall(g, _node[g], "PATCH", "update", <<>>)>>
    /\ result' = Result("update", g, send(_node[g], FALSE))
    /\ UNCHANGED <<_nodes, nodeVars, remoteVars, taskVars, playerVars, histVars,
                   legacyVars, extraVars>>

\* Node.get_tracks for a "<search_type>:<text>" query (pool.py:703-715):
\* one GET loadtracks; query tells which text play put after the search type
Search(n, query) ==
    [node |-> n, method |-> "GET", kind |-> "loadtracks", guild |-> "-",
     sid |-> NoSession, data |-> <<query>>, outcome |-> send(n, FALSE)]

\* track.isrc (objects.py:59): of the two tracks that start unresolved one
\* has an ISRC
isrc(track) == track = "isrc"

\* a play that searches whether or not the track has been resolved before
PlaySearches_again(g, track, found1) ==
    IF isrc(track) /\ send(_node[g], FALSE) = "ok" /\ found1
    THEN <<Search(_node[g], "isrc")>>
    ELSE IF isrc(track)
    THEN <<Search(_node[g], "isrc"), Search(_node[g], "title - author")>>
    ELSE <<Search(_node[g], "title - author")>>

\* the searches Player.play makes for a track whose original is None
\* (player.py:445-471): by ISRC when the track has one, and by title and
\* author when that raised or found nothing
PlaySearches(g, track, found1) ==
    IF original[track] # "None" THEN <<>>
    ELSE IF isrc(track) /\ send(_node[g], FALSE) = "ok" /\ found1
    THEN <<Search(_node[g], "isrc")>>
    ELSE IF isrc(track)
    THEN <<Search(_node[g], "isrc"), Search(_node[g], "title - author")>>
    ELSE <<Search(_node[g], "title - author")>>

\* whether those searches end with a candidate
PlayFound(g, track, found1, found2) ==
    \/ original[track] # "None"
    \/ isrc(track) /\ send(_node[g], FALSE) = "ok" /\ found1
    \/ send(_node[g], FALSE) = "ok" /\ found2

\* Filter objects by tag (filters.py:35-45): preload is set on the filters
\* given to get_tracks (pool.py:577-579), which become the track's filters
Filters == {"global", "pre1", "pre2"}
preload(filter) == filter # "global"
\* track.filters (objects.py:44)
TrackFilters(track) ==
    IF track = "isrc" THEN <<"pre1", "pre2">>
    ELSE IF track = "noisrc" THEN <<"pre2">>
    ELSE <<>>

\* Filters.get_preload_filters (player.py:90-92) and the filters that make
\* Filters.has_global true (player.py:56-58)
Preloaded(fs) == SelectSeq(fs, LAMBDA f : preload(f))
Global(fs) == SelectSeq(fs, LAMBDA f : ~preload(f))
\* Filters.remove_filter (player.py:73-80) of a tag the list holds once
Without(fs, tag) == SelectSeq(fs, LAMBDA f : f # tag)

\* a PATCH of the filter payload on the player's endpoint
FilterCall(g) == PlayerCall(g, _node[g], "PATCH", "filters", <<>>)

\* a play that adds the track's filters and removes nothing
PlayFilters_keep(g, track) ==
    IF send(_node[g], FALSE) = "ok"
    THEN _filters[g] \o (IF Global(_filters[g]) = <<>> THEN TrackFilters(track) ELSE <<>>)
    ELSE _filters[g]

\* Player.play, the filter steps (player.py:492-507): the list of filters
\* they leave. Every remove_filter and add_filter changes the list and then
\* sends a PATCH; the first PATCH that raises ends play.
PlayFilters(g, track) ==
    LET fs == _filters[g] IN
    IF send(_node[g], FALSE) = "ok"
    THEN Global(fs) \o (IF Global(fs) = <<>> THEN TrackFilters(track) ELSE <<>>)
    ELSE IF Preloaded(fs) # <<>> THEN Without(fs, Preloaded(fs)[1])
    ELSE IF TrackFilters(track) # <<>> /\ Global(fs) = <<>>
    THEN fs \o <<TrackFilters(track)[1]>>
    ELSE fs

\* the calls of those steps, and the PATCH that plays (player.py:517-523)
\* when none of them raised
PlayCalls(g, track, id) ==
    LET fs == _filters[g]
        added == IF Global(fs) = <<>> THEN TrackFilters(track) ELSE <<>>
        n == Len(Preloaded(fs)) + Len(added)
    IN IF send(_node[g], FALSE) = "ok"
       THEN [i \in 1..n |-> FilterCall(g)]
            \o <<PlayerCall(g, _node[g], "PATCH", "play", <<id>>)>>
       ELSE IF n > 0 THEN <<FilterCall(g)>>
       ELSE <<PlayerCall(g, _node[g], "PATCH", "play", <<id>>)>>

\* Player.play once the track has a candidate: the track resolved in place
\* (player.py:477-478), the filter steps, the PATCH
PlayEffect(g, track, found1) ==
    /\ original' = [original EXCEPT ![track] = IF @ = "None" THEN "search" ELSE @]
    /\ track_id' = [track_id EXCEPT ![track] =
                      IF original[track] = "None" THEN "found" ELSE @]
    /\ _filters' = [_filters EXCEPT ![g] = PlayFilters(g, track)]
    /\ rest' = PlaySearches(g, track, found1) \o PlayCalls(g, track, track_id'[track])
    /\ result' = Result("play", g, send(_node[g], FALSE))

\* a play that sets the current track before it resolves the track
PlayerPlay_current_first(g, track, found1, found2) ==
    /\ pstate[g] \in {"created", "bound"}
    /\ _current' = [_current EXCEPT ![g] = track]
    /\ IF PlayFound(g, track, found1, found2)
       THEN PlayEffect(g, track, found1)
       ELSE /\ rest' = PlaySearches(g, track, found1)
            /\ result' = Result("play", g, "TrackLoadError")
            /\ UNCHANGED <<trackVars, _filters>>
    /\ UNCHANGED <<_nodes, nodeVars, remoteVars, taskVars, pstate, _node,
                   _player_endpoint_uri, _voice_state, _is_connected, histVars,
                   legacyVars, latency, last_update, callVars, _volume, _paused,
                   self_channel, queueVars, backoffVars, ws_tasks>>

\* Player.play (player.py:439-529): the searches, the track resolved in
\* place, the current track (player.py:490), the filter steps
\* (player.py:492-507), the PATCH (player.py:517-523)
PlayerPlay(g, track, found1, found2) ==
    /\ pstate[g] \in {"created", "bound"}
    /\ IF PlayFound(g, track, found1, found2)
       THEN /\ _current' = [_current EXCEPT ![g] = track]
            /\ PlayEffect(g, track, found1)
       ELSE /\ rest' = PlaySearches(g, track, found1)
            /\ result' = Result("play", g, "TrackLoadError")
            /\ UNCHANGED <<_current, trackVars, _filters>>
    /\ UNCHANGED <<_nodes, nodeVars, remoteVars, taskVars, pstate, _node,
                   _player_endpoint_uri, _voice_state, _is_connected, histVars,
                   legacyVars, latency, last_update, callVars, _volume, _paused,
                   self_channel, queueVars, backoffVars, ws_tasks>>

\* --------------------------------------------------- the player's mirror
Volumes == {50, 100}

\* Player.set_pause (player.py:551-562)
SetPause(g, pause) ==
    /\ pstate[g] \in {"created", "bound"}
    /\ rest' = <<PlayerCall(g, _node[g], "PATCH", "paused", <<>>)>>
    /\ result' = Result("set_pause", g, send(_node[g], FALSE))
    /\ _paused' = [_paused EXCEPT ![g] = IF send(_node[g], FALSE) = "ok" THEN pause ELSE @]
    /\ UNCHANGED <<_nodes, nodeVars, remoteVars, taskVars, playerVars, histVars,
                   legacyVars, trackVars, latency, last_update, callVars,
                   _filters, _volume, self_channel, queueVars, backoffVars, ws_tasks>>

\* Player.set_volume (player.py:564-575)
SetVolume(g, volume) ==
    /\ pstate[g] \in {"created", "bound"}
    /\ rest' = <<PlayerCall(g, _node[g], "PATCH", "volume", <<>>)>>
    /\ result' = Result("set_volume", g, send(_node[g], FALSE))
    /\ _volume' = [_volume EXCEPT ![g] = IF send(_node[g], FALSE) = "ok" THEN volume ELSE @]
    /\ UNCHANGED <<_nodes, nodeVars, remoteVars, taskVars, playerVars, histVars,
                   legacyVars, trackVars, latency, last_update, callVars,
                   _filters, _paused, self_channel, queueVars, backoffVars, ws_tasks>>

\* Player.add_filter without fast_apply (player.py:577-599):
\* Filters.add_filter (player.py:65-71), then the PATCH
AddFilter(g, filter) ==
    /\ pstate[g] \in {"created", "bound"}
    /\ IF \E i \in 1..Len(_filters[g]) : _filters[g][i] = filter
       THEN /\ rest' = <<>>
            /\ result' = Result("add_filter", g, "FilterTagAlreadyInUse")
            /\ UNCHANGED _filters
       ELSE /\ _filters' = [_filters EXCEPT ![g] = Append(@, filter)]
            /\ rest' = <<FilterCall(g)>>
            /\ result' = Result("add_filter", g, send(_node[g], FALSE))
    /\ UNCHANGED <<_nodes, nodeVars, remoteVars, taskVars, playerVars, histVars,
                   legacyVars, trackVars, latency, last_update, callVars,
                   _volume, _paused, self_channel, queueVars, backoffVars, ws_tasks>>

\* Player.remove_filter without fast_apply (player.py:601-622):
\* Filters.remove_filter (player.py:73-80), then the PATCH
RemoveFilter(g, filter_tag) ==
    /\ pstate[g] \in {"created", "bound"}
    /\ IF ~\E i \in 1..Len(_filters[g]) : _filters[g][i] = filter_tag
       THEN /\ rest' = <<>>
            /\ result' = Result("remove_filter", g, "FilterTagInvalid")
            /\ UNCHANGED _filters
       ELSE /\ _filters' = [_filters EXCEPT ![g] = Without(@, filter_tag)]
            /\ rest' = <<FilterCall(g)>>
            /\ result' = Result("remove_filter", g, send(_node[g], FALSE))
    /\ UNCHANGED <<_nodes, nodeVars, remoteVars, taskVars, playerVars, histVars,
                   legacyVars, trackVars, latency, last_update, callVars,
                   _volume, _paused, self_channel, queueVars, backoffVars, ws_tasks>>

\* Player.reset_filters without fast_apply (player.py:624-647). The test
\* "not self._filters" is on the Filters object, which has no __bool__ and
\* no __len__ and so is always true: the method never raises
\* FilterInvalidArgument.
ResetFilters(g) ==
    /\ pstate[g] \in {"created", "bound"}
    /\ _filters' = [_filters EXCEPT ![g] = <<>>]
    /\ rest' = <<FilterCall(g)>>
    /\ result' = Result("reset_filters", g, send(_node[g], FALSE))
    /\ UNCHANGED <<_nodes, nodeVars, remoteVars, taskVars, playerVars, histVars,
                   legacyVars, trackVars, latency, last_update, callVars,
                   _volume, _paused, self_channel, queueVars, backoffVars, ws_tasks>>

\* ------------------------------------------------------ player messages
\* the reason of a TrackEndEvent as the node writes it: Lavalink 3 in upper
\* case, Lavalink 4 in lower case
Reasons == {"FINISHED", "REPLACED", "finished", "replaced"}
ReasonsOf(n) ==
    IF _version[n][1] >= 4 THEN {"finished", "replaced"} ELSE {"FINISHED", "REPLACED"}

\* the node whose receive loop hands a message for guild g to the player
\* (pool.py:325-329, 367-369): its socket is open and its map holds g
Receives(n, g) ==
    /\ _task[n] = "recv"
    /\ _websocket[n] = "open"
    /\ g \in _players[n]

\* a _dispatch_event that takes the reason in either case
clears_any_case(reason) == reason \notin {"REPLACED", "replaced"}

\* Player._dispatch_event (player.py:327): whether a TrackEndEvent with this
\* reason (events.py:88, the string as received) clears the current track
clears(reason) == reason # "REPLACED"

\* Node._handle_ws_msg, op "event", type TrackEndEvent (pool.py:371-372),
\* Player._dispatch_event (player.py:323-335)
TrackEnd(g, reason) ==
    /\ \E n \in Nodes : Receives(n, g) /\ reason \in ReasonsOf(n)
    /\ _current' = [_current EXCEPT ![g] = IF clears(reason) THEN "None" ELSE @]
    /\ rest' = <<>>
    /\ result' = Result("TrackEndEvent", g, reason)
    /\ UNCHANGED <<_nodes, nodeVars, remoteVars, taskVars, pstate, _node,
                   _player_endpoint_uri, _voice_state, _is_connected, histVars,
                   legacyVars, extraVars>>

\* Node._handle_ws_msg, op "playerUpdate" (pool.py:374-375),
\* Player._update_state (player.py:271-276)
UpdateState(g, connected) ==
    /\ \E n \in Nodes : Receives(n, g)
    /\ _is_connected' = [_is_connected EXCEPT ![g] = connected]
    /\ last_update' = [last_update EXCEPT ![g] = IF connected THEN "true" ELSE "false"]
    /\ rest' = <<>>
    /\ result' = NoResult
    /\ UNCHANGED <<_nodes, nodeVars, remoteVars, taskVars, pstate, _node,
                   _player_endpoint_uri, _voice_state, _current, histVars,
                   legacyVars, trackVars, latency, callVars, mirrorVars, queueVars, backoffVars, ws_tasks>>

\* a message of the node about a guild's player: a TrackEndEvent with its
\* reason, or a playerUpdate with its "connected"
Message(g, op, arg) == [guild |-> g, op |-> op, arg |-> arg]

\* Node._listen (pool.py:325-329): recv returns a message and a task is
\* made for its handler
ListenRecv(n, msg) ==
    /\ _task[n] = "recv"
    /\ _websocket[n] = "open"
    /\ Len(ws_tasks[n]) < MaxMsgs
    /\ ws_tasks' = [ws_tasks EXCEPT ![n] = Append(@, msg)]
    /\ rest' = <<>>
    /\ result' = NoResult
    /\ UNCHANGED <<_nodes, nodeVars, remoteVars, taskVars, playerVars, histVars,
                   legacyVars, trackVars, latency, last_update, callVars,
                   mirrorVars, queueVars, backoffVars>>

\* a handler that hands the message to the guild's player wherever it is
Finds_anyway(n, g) == pstate[g] # "none"

\* the lookup of Node._handle_ws_msg (pool.py:367-369)
Finds(n, g) == g \in _players[n]

\* Node._handle_ws_msg run as a task (pool.py:351-375): the player found in
\* the node's map gets the event (player.py:323-335) or the state
\* (player.py:271-276); without one the message is dropped
HandleWsMsg(n) ==
    /\ ws_tasks[n] # <<>>
    /\ ws_tasks' = [ws_tasks EXCEPT ![n] = Tail(@)]
    /\ rest' = <<>>
    /\ LET msg == Head(ws_tasks[n])
           g == msg.guild
       IN IF Finds(n, g)
          THEN /\ result' = Result(msg.op, g, "delivered")
               /\ IF msg.op = "event"
                  THEN /\ _current' = [_current EXCEPT ![g] =
                                         IF clears(msg.arg) THEN "None" ELSE @]
                       /\ UNCHANGED <<_is_connected, last_update>>
                  ELSE /\ _is_connected' = [_is_connected EXCEPT ![g] = msg.arg]
                       /\ last_update' = [last_update EXCEPT ![g] =
                                            IF msg.arg THEN "true" ELSE "false"]
                       /\ UNCHANGED _current
          ELSE /\ result' = Result(msg.op, g, "dropped")
               /\ UNCHANGED <<_current, _is_connected, last_update>>
    /\ UNCHANGED <<_nodes, nodeVars, remoteVars, taskVars, pstate, _node,
                   _player_endpoint_uri, _voice_state, histVars, legacyVars,
                   trackVars, latency, callVars, mirrorVars, queueVars, backoffVars>>

\* Player.disconnect (player.py:412-419): VoiceProtocol.cleanup, run in the
\* finally block, reads self.channel and raises AttributeError when it is
\* None (player.py:426-427), which skips the two assignments after it
DisconnectRaises(g) == ~self_channel[g]

\* the assert of destroy (player.py:428) after that AttributeError
DestroyAsserts(g) == DisconnectRaises(g) /\ _is_connected[g]

\* Player.destroy (player.py:421-437): voice disconnect, the pop from the
\* map of the node the player is bound to now, the DELETE
DestroyPops(g) == ~DestroyAsserts(g) /\ g \in _players[_node[g]]
DestroyRest(g) ==
    IF DestroyPops(g) THEN <<PlayerCall(g, _node[g], "DELETE", "destroy", <<>>)>>
    ELSE <<>>
DestroyOutcome(g) ==
    IF DestroyAsserts(g) THEN "AssertionError"
    ELSE IF DestroyPops(g) THEN send(_node[g], FALSE) ELSE "KeyError"
DestroyEffect(g) ==
    /\ _is_connected' = [_is_connected EXCEPT ![g] = IF DisconnectRaises(g) THEN @ ELSE FALSE]
    /\ self_channel' = [self_channel EXCEPT ![g] = FALSE]
    /\ _players' = [_players EXCEPT ![_node[g]] = IF DestroyPops(g) THEN @ \ {g} ELSE @]
    /\ pstate' = [pstate EXCEPT ![g] = IF DestroyPops(g) THEN "destroyed" ELSE @]
    /\ rest' = DestroyRest(g)

\* Player.destroy called by the application, on a connected player or once
\* more on a player it has destroyed
PlayerDestroy(g) ==
    /\ pstate[g] \in {"bound", "destroyed"}
    /\ DestroyEffect(g)
    /\ result' = Result("destroy", g, DestroyOutcome(g))
    /\ UNCHANGED <<_nodes, _fallback, _websocket, _task, _session_id, _available,
                   available, _version, _session, remoteVars, taskVars, _node,
                   _player_endpoint_uri, _voice_state, _current, histVars,
                   legacyVars, otherVars>>

\* a task made at pool.py:333 runs Player.destroy
DestroyTask(g) ==
    /\ g \in destroy_tasks
    /\ destroy_tasks' = destroy_tasks \ {g}
    /\ DestroyEffect(g)
    /\ result' = NoResult
    /\ UNCHANGED <<_nodes, _fallback, _websocket, _task, _session_id, _available,
                   available, _version, _session, remoteVars, create_pc,
                   connect_tasks, switch_pc, switch_new, switch_todo, disc_pc,
                   disc_todo, disc_log, _node, _player_endpoint_uri, _voice_state,
                   _current, histVars, legacyVars, otherVars>>

\* -------------------------------------------------------- Node.disconnect
Remove(seq, x) == SelectSeq(seq, LAMBDA y : y # x)
DiscIdle(n) == disc_pc[n] \in {"none", "done", "failed"}

\* the switch task that awaits Node.disconnect ends with it
SwitchEnds(n, how) ==
    switch_pc' = [switch_pc EXCEPT ![n] =
                    IF switch_pc[n] = "disconnecting" THEN how ELSE @]

\* Node.disconnect is entered (pool.py:513-515): the copy of the player map
DisconnectEnter(n) ==
    /\ disc_todo' = [disc_todo EXCEPT ![n] = _players[n]]
    /\ disc_log' = [disc_log EXCEPT ![n] = <<>>]
    /\ disc_pc' = [disc_pc EXCEPT ![n] = "players"]

\* Node.disconnect called by the application on a node of the pool
DisconnectStart(n) ==
    /\ InPool(n)
    /\ DiscIdle(n)
    /\ DisconnectEnter(n)
    /\ rest' = <<>>
    /\ result' = NoResult
    /\ UNCHANGED <<_nodes, nodeVars, remoteVars, create_pc, connect_tasks,
                   destroy_tasks, switch_pc, switch_new, switch_todo, playerVars,
                   histVars, legacyVars, extraVars>>

\* Node.disconnect: await player.destroy() for one player of the copy
\* (pool.py:515-518); what destroy raises ends disconnect
DisconnectDestroy(n, g) ==
    /\ disc_pc[n] = "players"
    /\ g \in disc_todo[n]
    /\ DestroyEffect(g)
    /\ IF DestroyOutcome(g) = "ok"
       THEN /\ disc_todo' = [disc_todo EXCEPT ![n] = @ \ {g}]
            /\ disc_log' = [disc_log EXCEPT ![n] = Append(@, g)]
            /\ result' = NoResult
            /\ UNCHANGED <<disc_pc, switch_pc>>
       ELSE /\ disc_todo' = [disc_todo EXCEPT ![n] = {}]
            /\ disc_pc' = [disc_pc EXCEPT ![n] = "failed"]
            /\ result' = NoResult
            /\ SwitchEnds(n, "failed")
            /\ UNCHANGED disc_log
    /\ UNCHANGED <<_nodes, _fallback, _websocket, _task, _session_id, _available,
                   available, _version, _session, remoteVars, create_pc,
                   connect_tasks, destroy_tasks, switch_new, switch_todo, _node,
                   _player_endpoint_uri, _voice_state, _current, histVars,
                   legacyVars, otherVars>>

\* Node.disconnect: await self._websocket.close() (pool.py:520)
DisconnectCloseWs(n) ==
    /\ disc_pc[n] = "players"
    /\ disc_todo[n] = {}
    /\ _websocket' = [_websocket EXCEPT ![n] = "closed"]
    /\ ws_ready' = [ws_ready EXCEPT ![n] = NoSession]
    /\ disc_log' = [disc_log EXCEPT ![n] = Append(@, "ws")]
    /\ disc_pc' = [disc_pc EXCEPT ![n] = "http"]
    /\ rest' = <<>>
    /\ result' = NoResult
    /\ UNCHANGED <<_nodes, _fallback, _task, _session_id, _available, available,
                   _version, _session, _players, remote_up, remote_version,
                   next_sid, closes, create_pc, connect_tasks, destroy_tasks,
                   switch_pc, switch_new, switch_todo, disc_todo, playerVars,
                   histVars, legacyVars, extraVars>>

\* Node.disconnect: await self._session.close(), then the node leaves the
\* pool, the attribute "available" (not "_available") is set to False and
\* the listen task is cancelled (pool.py:521-527)
DisconnectFinish(n) ==
    /\ disc_pc[n] = "http"
    /\ _session' = [_session EXCEPT ![n] = "closed"]
    /\ rest' = <<>>
    /\ IF InPool(n)
       THEN /\ _nodes' = Remove(_nodes, n)
            /\ available' = [available EXCEPT ![n] = "False"]
            /\ _task' = [_task EXCEPT ![n] = "cancelled"]
            /\ disc_log' = [disc_log EXCEPT ![n] = @ \o <<"http", "remove", "cancel">>]
            /\ disc_pc' = [disc_pc EXCEPT ![n] = "done"]
            /\ result' = Result("disconnect", n, "ok")
            /\ SwitchEnds(n, "done")
       ELSE /\ disc_log' = [disc_log EXCEPT ![n] = Append(@, "http")]
            /\ disc_pc' = [disc_pc EXCEPT ![n] = "failed"]
            /\ result' = NoResult
            /\ SwitchEnds(n, "failed")
            /\ UNCHANGED <<_nodes, available, _task>>
    /\ UNCHANGED <<_fallback, _websocket, _session_id, _available, _version,
                   _players, remoteVars, create_pc, connect_tasks, destroy_tasks,
                   switch_new, switch_todo, disc_todo, playerVars, histVars,
                   legacyVars, extraVars>>

\* ------------------------------------------------------ voice dispatch
\* a guard that asks for the event key only
dispatch_ready_event_only(vs) == vs.event # "absent"

\* the guard of Player._dispatch_voice_update (player.py:279-280): the keys
\* of _voice_state are exactly sessionId and event
dispatch_ready(vs) == vs.sessionId # "absent" /\ vs.event # "absent"

\* Player._dispatch_voice_update(voice_data) (player.py:278-297): the calls
\* it makes through node n on the path with session id sid; state is
\* voice_data or self._voice_state
_dispatch_voice_update(g, n, sid, vs, state) ==
    IF dispatch_ready(vs)
    THEN <<Call(g, n, sid, "PATCH", "voice", <<state.event, state.sessionId>>)>>
    ELSE <<>>

\* the node whose _update_handler finds the player (pool.py:267-290)
Routed(g) == \E n \in Nodes : g \in _players[n]

\* Player.on_voice_server_update (player.py:299-301)
OnVoiceServerUpdate(g, ev) ==
    /\ Routed(g)
    /\ LET vs == [_voice_state[g] EXCEPT !.event = ev]
           calls == _dispatch_voice_update(g, _node[g], _player_endpoint_uri[g], vs, vs)
       IN /\ _voice_state' = [_voice_state EXCEPT ![g] = vs]
          /\ rest' = calls
          /\ result' = Result("on_voice_server_update", g,
                              IF calls = <<>> THEN "ok" ELSE calls[1].outcome)
    /\ UNCHANGED <<_nodes, nodeVars, remoteVars, taskVars, pstate, _node,
                   _player_endpoint_uri, _current, _is_connected, histVars,
                   legacyVars, extraVars>>

\* Player.on_voice_state_update (player.py:303-321): channel says whether
\* the data names a channel the guild has, token is the data's "token"
\* ("absent" for the voice state Discord sends). Without a channel the
\* player disconnects and, when that did not raise, clears _voice_state.
OnVoiceStateUpdate(g, sessionId, channel, token) ==
    /\ Routed(g)
    /\ LET vs == [_voice_state[g] EXCEPT !.sessionId = sessionId]
           calls == IF channel /\ token # "absent"
                    THEN _dispatch_voice_update(g, _node[g], _player_endpoint_uri[g],
                                                vs, [vs EXCEPT !.event = token])
                    ELSE <<>>
       IN /\ _voice_state' = [_voice_state EXCEPT ![g] =
                                IF channel \/ DisconnectRaises(g) THEN vs ELSE NoVoice]
          /\ _is_connected' = [_is_connected EXCEPT ![g] =
                                 IF channel \/ DisconnectRaises(g) THEN @ ELSE FALSE]
          /\ self_channel' = [self_channel EXCEPT ![g] = IF channel THEN @ ELSE FALSE]
          /\ rest' = calls
          /\ result' = Result("on_voice_state_update", g,
                              IF ~channel /\ DisconnectRaises(g) THEN "AttributeError"
                              ELSE IF calls = <<>> THEN "ok" ELSE calls[1].outcome)
    /\ UNCHANGED <<_nodes, nodeVars, remoteVars, taskVars, pstate, _node,
                   _player_endpoint_uri, _current, histVars, legacyVars, otherVars>>

\* Player.disconnect called by the application (player.py:412-419)
PlayerDisconnect(g) ==
    /\ pstate[g] \in {"created", "bound"}
    /\ _is_connected' = [_is_connected EXCEPT ![g] = IF DisconnectRaises(g) THEN @ ELSE FALSE]
    /\ self_channel' = [self_channel EXCEPT ![g] = FALSE]
    /\ rest' = <<>>
    /\ result' = Result("disconnect", g,
                        IF DisconnectRaises(g) THEN "AttributeError" ELSE "ok")
    /\ UNCHANGED <<_nodes, nodeVars, remoteVars, taskVars, pstate, _node,
                   _player_endpoint_uri, _voice_state, _current, histVars,
                   legacyVars, otherVars>>

\* ------------------------------------------------------------ node switch
\* Node._handle_node_switch up to the first swap (pool.py:292-294): the
\* connected nodes of the pool, random.choice among them
SwitchStart(n) ==
    /\ switch_pc[n] = "pending"
    /\ rest' = <<>>
    /\ IF {m \in Nodes : InPool(m) /\ is_connected(m)} = {}
       THEN /\ switch_pc' = [switch_pc EXCEPT ![n] = "failed"]
            /\ result' = NoResult
            /\ UNCHANGED <<switch_new, switch_todo>>
       ELSE \E m \in {m \in Nodes : InPool(m) /\ is_connected(m)} :
            /\ switch_new' = [switch_new EXCEPT ![n] = m]
            /\ switch_todo' = [switch_todo EXCEPT ![n] = _players[n]]
            /\ switch_pc' = [switch_pc EXCEPT ![n] = "swapping"]
            /\ result' = NoResult
    /\ UNCHANGED <<_nodes, nodeVars, remoteVars, create_pc, connect_tasks,
                   destroy_tasks, disc_pc, disc_todo, disc_log, playerVars,
                   histVars, legacyVars, extraVars>>

\* what Player._swap_node raises, if anything (player.py:337-355): KeyError
\* at the del, what the voice update's send raises, UnboundLocalError for
\* data when there is no current track, what the PATCH's send raises
SwapOutcome(g, new) ==
    IF g \notin _players[_node[g]] THEN "KeyError"
    ELSE IF dispatch_ready(_voice_state[g]) /\ send(new, FALSE) # "ok"
    THEN send(new, FALSE)
    ELSE IF _current[g] = "None" THEN "UnboundLocalError"
    ELSE send(new, FALSE)

\* the calls Player._swap_node makes: the voice update, then the PATCH
\* whose data has the keys position and encodedTrack (player.py:339)
SwapCalls(g, new) ==
    IF g \notin _players[_node[g]] THEN <<>>
    ELSE _dispatch_voice_update(g, new, _session_id[new], _voice_state[g], _voice_state[g])
         \o (IF (dispatch_ready(_voice_state[g]) /\ send(new, FALSE) # "ok")
                \/ _current[g] = "None"
             THEN <<>>
             ELSE <<Call(g, new, _session_id[new], "PATCH", "swap",
                         <<"position", "encodedTrack">>)>>)

\* a swap that registers the player with the new node and leaves the entry
\* of the old node in place
SwapMaps_keep_old(g, new) ==
    [m \in Nodes |-> IF m = new THEN _players[m] \cup {g} ELSE _players[m]]

\* Player._swap_node (player.py:341-343): the player maps after
\* del self._node._players[guild.id] and new_node._players[guild.id] = self
SwapMaps(g, new) ==
    [m \in Nodes |-> IF m = new THEN _players[m] \cup {g}
                     ELSE IF m = _node[g] THEN _players[m] \ {g}
                     ELSE _players[m]]

\* Node._handle_node_switch: await player._swap_node(new_node) for one
\* player of the copy (pool.py:296-297, player.py:337-355)
SwitchSwap(n, g) ==
    /\ switch_pc[n] = "swapping"
    /\ g \in switch_todo[n]
    /\ rest' = SwapCalls(g, switch_new[n])
    /\ result' = Result("_swap_node", g, SwapOutcome(g, switch_new[n]))
    /\ IF g \in _players[_node[g]]
       THEN /\ _players' = SwapMaps(g, switch_new[n])
            /\ _node' = [_node EXCEPT ![g] = switch_new[n]]
            /\ _player_endpoint_uri' =
                   [_player_endpoint_uri EXCEPT ![g] = _session_id[switch_new[n]]]
       ELSE UNCHANGED <<_players, _node, _player_endpoint_uri>>
    /\ IF SwapOutcome(g, switch_new[n]) = "ok"
       THEN /\ switch_todo' = [switch_todo EXCEPT ![n] = @ \ {g}]
            /\ UNCHANGED switch_pc
       ELSE /\ switch_todo' = [switch_todo EXCEPT ![n] = {}]
            /\ switch_pc' = [switch_pc EXCEPT ![n] = "failed"]
    /\ UNCHANGED <<_nodes, _fallback, _websocket, _task, _session_id, _available,
                   available, _version, _session, remoteVars, create_pc,
                   connect_tasks, destroy_tasks, switch_new, disc_pc, disc_todo,
                   disc_log, pstate, _voice_state, _current, _is_connected,
                   histVars, legacyVars, extraVars>>

\* Node._handle_node_switch: every player of the copy is swapped, the node
\* disconnects (pool.py:299)
SwitchDisconnect(n) ==
    /\ switch_pc[n] = "swapping"
    /\ switch_todo[n] = {}
    /\ DiscIdle(n)
    /\ DisconnectEnter(n)
    /\ switch_pc' = [switch_pc EXCEPT ![n] = "disconnecting"]
    /\ rest' = <<>>
    /\ result' = Result("switch_disconnect", n, "pending")
    /\ UNCHANGED <<_nodes, nodeVars, remoteVars, create_pc, connect_tasks,
                   destroy_tasks, switch_new, switch_todo, playerVars, histVars,
                   legacyVars, extraVars>>

\* ------------------------------------------------ pomice/node.py Node
\* Node.connect (node.py:202-213), called by the application (task = FALSE)
\* or run as the task the listen loop made (task = TRUE): ws_connect
\* returns a new websocket when the remote node accepts, and a new listen
\* task is made whatever self._task holds.
LgConnect(task, up) ==
    /\ IF task THEN lg_connects > 0 ELSE lg_ws = "None"
    /\ lg_connects' = IF task THEN lg_connects - 1 ELSE lg_connects
    /\ IF up
       THEN /\ lg_ws' = "open"
            /\ lg_listeners' = [lg_listeners EXCEPT !.recv = @ + 1]
       ELSE UNCHANGED <<lg_ws, lg_listeners>>
    /\ rest' = <<>>
    /\ result' = NoResult
    /\ UNCHANGED <<_nodes, nodeVars, remoteVars, taskVars, playerVars, histVars,
                   lg_closes, extraVars>>

\* the remote node, or the network, drops the websocket
LgClose ==
    /\ lg_ws = "open"
    /\ lg_closes < MaxCloses
    /\ lg_closes' = lg_closes + 1
    /\ lg_ws' = "closed"
    /\ rest' = <<>>
    /\ result' = NoResult
    /\ UNCHANGED <<_nodes, nodeVars, remoteVars, taskVars, playerVars, histVars,
                   lg_listeners, lg_connects, extraVars>>

\* Node._listen (node.py:160-163): receive() returns the CLOSED message and
\* the loop sleeps for the backoff delay
LgListenClosed ==
    /\ lg_ws = "closed"
    /\ lg_listeners.recv > 0
    /\ lg_listeners' = [recv |-> lg_listeners.recv - 1, sleep |-> lg_listeners.sleep + 1]
    /\ rest' = <<>>
    /\ result' = NoResult
    /\ UNCHANGED <<_nodes, nodeVars, remoteVars, taskVars, playerVars, histVars,
                   lg_ws, lg_connects, lg_closes, extraVars>>

\* Node._listen (node.py:163-168, 160): after the sleep a connect task when
\* the node is not connected, then receive() again on self._websocket. When
\* another loop already waits in receive() on that websocket the call is a
\* concurrent receive, which the websocket refuses (the loop ends, raised)
\* or lets wait too.
LgListenWake(raised) ==
    /\ lg_listeners.sleep > 0
    /\ lg_ws # "open" => lg_connects < MaxConnTasks
    /\ lg_connects' = IF lg_ws # "open" THEN lg_connects + 1 ELSE lg_connects
    /\ lg_listeners' =
           IF lg_ws = "open" /\ lg_listeners.recv > 0 /\ raised
           THEN [lg_listeners EXCEPT !.sleep = @ - 1]
           ELSE [recv |-> lg_listeners.recv + 1, sleep |-> lg_listeners.sleep - 1]
    /\ rest' = <<>>
    /\ result' = NoResult
    /\ UNCHANGED <<_nodes, nodeVars, remoteVars, taskVars, playerVars, histVars,
                   lg_ws, lg_closes, extraVars>>

\* ----------------------------------- NodePool.create_node, calls that overlap
\* everything but the create_node calls
notCallVars == <<_nodes, nodeVars, remoteVars, taskVars, playerVars, rest, result,
                 histVars, legacyVars, trackVars, latency, last_update,
                 mirrorVars, queueVars, backoffVars, ws_tasks>>

\* NodePool.create_node up to await node.connect() (pool.py:1022-1047): the
\* identifier is looked up in _nodes, and a Node object is made when it is
\* not there. A call that has raised is over, and its name is free again.
CreateCallStart(c, identifier) ==
    /\ cn_pc[c] \in {"idle", "NodeCreationError", "NodeConnectionFailure"}
    /\ cn_identifier' = [cn_identifier EXCEPT ![c] = identifier]
    /\ cn_pc' = [cn_pc EXCEPT ![c] =
                   IF cn_nodes[identifier] # "None" THEN "NodeCreationError"
                   ELSE "connecting"]
    /\ UNCHANGED <<cn_nodes, notCallVars>>

\* NodePool.create_node after await node.connect() (pool.py:1047-1048):
\* connect raised, or the Node object is stored under its identifier
CreateCallFinish(c, connected) ==
    /\ cn_pc[c] = "connecting"
    /\ IF connected
       THEN /\ cn_nodes' = [cn_nodes EXCEPT ![cn_identifier[c]] = c]
            /\ cn_pc' = [cn_pc EXCEPT ![c] = "done"]
       ELSE /\ cn_pc' = [cn_pc EXCEPT ![c] = "NodeConnectionFailure"]
            /\ UNCHANGED cn_nodes
    /\ UNCHANGED <<cn_identifier, notCallVars>>

\* Node.disconnect of the Node object a call returned (pool.py:525): the
\* entry under the object's identifier is deleted, whichever object it
\* holds; KeyError when there is none
CallNodeDisconnect(c) ==
    /\ cn_pc[c] = "done"
    /\ IF cn_nodes[cn_identifier[c]] = "None"
       THEN /\ cn_pc' = [cn_pc EXCEPT ![c] = "KeyError"]
            /\ UNCHANGED cn_nodes
       ELSE /\ cn_nodes' = [cn_nodes EXCEPT ![cn_identifier[c]] = "None"]
            /\ cn_pc' = [cn_pc EXCEPT ![c] = "disconnected"]
    /\ UNCHANGED <<cn_identifier, notCallVars>>

\* ------------------------------------------------- the pool's selectors
Algorithms == {"by_ping", "by_players", "other"}

\* the remote node is restarted with another Lavalink release; a websocket
\* open to it is lost
RemoteRestart(n, version) ==
    /\ remote_version[n] # version
    /\ remote_version' = [remote_version EXCEPT ![n] = version]
    /\ _websocket' = [_websocket EXCEPT ![n] =
                        IF _websocket[n] = "open" THEN "closed" ELSE _websocket[n]]
    /\ ws_ready' = [ws_ready EXCEPT ![n] = NoSession]
    /\ rest' = <<>>
    /\ result' = NoResult
    /\ UNCHANGED <<_nodes, _fallback, _task, _session_id, _available, available,
                   _version, _session, _players, remote_up, next_sid, closes,
                   taskVars, playerVars, histVars, legacyVars, extraVars>>

\* the time a TCP connect to the node takes changes (utils.py:219-228)
LatencyChange(n, l) ==
    /\ latency[n] # l
    /\ latency' = [latency EXCEPT ![n] = l]
    /\ rest' = <<>>
    /\ result' = NoResult
    /\ UNCHANGED <<_nodes, nodeVars, remoteVars, taskVars, playerVars, histVars,
                   legacyVars, trackVars, last_update, callVars, mirrorVars, queueVars, backoffVars, ws_tasks>>

\* Node.connect() called by the application on a node of the pool
\* (pool.py:440-506, reconnect=False), taken as one step: the version
\* probe, the version check, then client.connect, which the remote node
\* that has just answered the probe accepts.
NodeConnect(n) ==
    /\ InPool(n)
    /\ create_pc[n] = "done"
    /\ disc_pc[n] = "none"
    /\ rest' = <<[node |-> n, method |-> "GET", kind |-> "version", guild |-> "-",
                  sid |-> NoSession, data |-> <<>>, outcome |-> send(n, TRUE)]>>
    /\ IF send(n, TRUE) # "ok"
       THEN /\ result' = Result("connect", n, send(n, TRUE))
            /\ UNCHANGED <<_version, _available, _websocket, _task, ws_ready, next_sid>>
       ELSE LET chk == _handle_version_check(remote_version[n]) IN
            /\ _version' = [_version EXCEPT ![n] =
                              IF version_matches(remote_version[n])
                                 \/ remote_version[n].suffix = "-SNAPSHOT"
                              THEN chk.version ELSE _version[n]]
            /\ IF chk.raised
               THEN /\ _available' = [_available EXCEPT ![n] = FALSE]
                    /\ result' = Result("connect", n, "LavalinkVersionIncompatible")
                    /\ UNCHANGED <<_websocket, _task, ws_ready, next_sid>>
               ELSE /\ _websocket' = [_websocket EXCEPT ![n] = "open"]
                    /\ _task' = [_task EXCEPT ![n] =
                                   IF _task[n] = "None" THEN "recv" ELSE _task[n]]
                    /\ _available' = [_available EXCEPT ![n] = TRUE]
                    /\ ws_ready' = [ws_ready EXCEPT ![n] = next_sid]
                    /\ next_sid' = (next_sid % MaxSession) + 1
                    /\ result' = Result("connect", n, "ok")
    /\ UNCHANGED <<_nodes, _fallback, _session_id, available, _session, _players,
                   remote_up, remote_version, closes, taskVars, playerVars,
                   histVars, legacyVars, extraVars>>

\* NodePool.get_node (pool.py:980-995): the results a call can have;
\* without identifier random.choice picks any available node
get_node(identifier) ==
    IF available_nodes = {} THEN {Result("get_node", "-", "NoNodesAvailable")}
    ELSE IF identifier = NoNode
    THEN {Result("get_node", n, "ok") : n \in available_nodes}
    ELSE IF identifier \in available_nodes THEN {Result("get_node", identifier, "ok")}
    ELSE {Result("get_node", "-", "KeyError")}

\* the node a selection by min() takes when it keeps the last of the
\* smallest
min_by_last(nodes, tested_nodes) ==
    nodes[CHOOSE i \in 1..Len(nodes) :
            /\ \A j \in 1..Len(nodes) : tested_nodes[nodes[j]] >= tested_nodes[nodes[i]]
            /\ \A j \in (i + 1)..Len(nodes) :
                   tested_nodes[nodes[j]] > tested_nodes[nodes[i]]]

\* min(tested_nodes, key=tested_nodes.get) (pool.py:969, 973): the first
\* node of the dict, in insertion order, whose value is the smallest
min_by(nodes, tested_nodes) ==
    nodes[CHOOSE i \in 1..Len(nodes) :
            /\ \A j \in 1..Len(nodes) : tested_nodes[nodes[j]] >= tested_nodes[nodes[i]]
            /\ \A j \in 1..(i - 1) : tested_nodes[nodes[j]] > tested_nodes[nodes[i]]]

\* Node.latency (pool.py:219-222) and len(node.players.keys()) (pool.py:972)
\* of every node
ping_metric == latency
players_metric == [n \in Nodes |-> Cardinality(_players[n])]

\* NodePool.get_best_node (pool.py:947-978). The list is built from
\* cls._nodes.values(), in the order the nodes were registered; by_ping
\* opens a TCP connection to every available node, which raises when the
\* node cannot be reached.
get_best_node(algorithm) ==
    LET nodes == SelectSeq(_nodes, LAMBDA n : n \in available_nodes) IN
    IF nodes = <<>> THEN Result("get_best_node", "-", "NoNodesAvailable")
    ELSE IF algorithm = "by_ping"
    THEN IF \E i \in 1..Len(nodes) : ~remote_up[nodes[i]]
         THEN Result("get_best_node", "-", "OSError")
         ELSE Result("get_best_node", min_by(nodes, ping_metric), "ok")
    ELSE IF algorithm = "by_players"
    THEN Result("get_best_node", min_by(nodes, players_metric), "ok")
    ELSE Result("get_best_node", "-", "ValueError")

\* a call of NodePool.get_node
GetNode(identifier) ==
    /\ result' \in get_node(identifier)
    /\ rest' = <<>>
    /\ UNCHANGED <<_nodes, nodeVars, remoteVars, taskVars, playerVars, histVars,
                   legacyVars, extraVars>>

\* a call of NodePool.get_best_node
GetBestNode(algorithm) ==
    /\ result' = get_best_node(algorithm)
    /\ rest' = <<>>
    /\ UNCHANGED <<_nodes, nodeVars, remoteVars, taskVars, playerVars, histVars,
                   legacyVars, extraVars>>


\* ----------------------------------------------------- ExponentialBackoff
\* the bases the application makes a backoff with
Bases == {1, ListenBase}
\* the times between two calls: none, the reset time, more than it
Intervals(bo) == {0, bo._reset_time, bo._reset_time + 1}
\* what self._randfunc(0, w) may return: the ends of the range and a value
\* between them (randrange never returns w)
Draws(w) == {0, w \div 2, w}

\* ExponentialBackoff.delay (utils.py:61-70)
BackoffDelay(interval, r) ==
    /\ interval <= backoff._reset_time => streak < MaxCalls
    /\ backoff' = Delayed(backoff, interval)
    /\ r \in Draws(Window(backoff'))
    /\ retry' = r
    /\ streak' = IF interval > backoff._reset_time THEN 1 ELSE streak + 1
    /\ result' = Result("delay", interval, r)
    /\ rest' = <<>>
    /\ UNCHANGED <<_nodes, nodeVars, remoteVars, taskVars, playerVars, histVars,
                   legacyVars, trackVars, latency, last_update, callVars,
                   mirrorVars, queueVars, retry_window, ws_tasks>>

\* ----------------------------------------------------------------- Queue
\* the tracks the application queues, by track_id: two Track objects of
\* one track_id are equal (objects.py:81-88), a queue may hold one twice
Items == {"A", "B", "C"}
\* None where a Track is expected
NoItem == "None"
\* LoopMode (enums.py:129-130)
LoopModes == {"track", "queue"}
\* everything but the Queue
notQueueVars == <<_nodes, nodeVars, remoteVars, taskVars, playerVars, histVars,
                  legacyVars, trackVars, latency, last_update, callVars, mirrorVars,
                  backoffVars, ws_tasks>>

\* item in self._queue
In(item, q) == \E i \in 1..Len(q) : q[i] = item
\* Queue._index (queue.py:116-117): list.index, the first position, from 0
_index(item, q) == (CHOOSE i \in 1..Len(q) : q[i] = item /\ \A j \in 1..(i - 1) : q[j] # item) - 1
\* list.insert
Insert(q, index, item) ==
    LET k == IF index > Len(q) THEN Len(q) ELSE index
    IN SubSeq(q, 1, k) \o <<item>> \o SubSeq(q, k + 1, Len(q))
\* list.remove: the first equal item goes
_remove(q, item) == SubSeq(q, 1, _index(item, q)) \o SubSeq(q, _index(item, q) + 2, Len(q))
\* q[index:]
From(q, index) == SubSeq(q, index + 1, Len(q))
\* Queue.is_full (queue.py:158-160)
is_full(q) == max_size # NoMax /\ Len(q) >= max_size
\* Queue._drop (queue.py:113-114): list.pop() takes the last item
_drop(q) == SubSeq(q, 1, Len(q) - 1)
\* whether a put or put_at_index raises QueueFull (queue.py:245-247, 255-257)
Rejects(q) == is_full(q) /\ ~_overflow
\* Queue.put (queue.py:243-251) when it does not raise
put(q, item) == Append(IF is_full(q) THEN _drop(q) ELSE q, item)
\* the loop of Queue.extend (queue.py:286-287): the queue after the puts
\* up to the first that raises
RECURSIVE PutAll(_, _)
PutAll(q, items) ==
    IF items = <<>> \/ Rejects(q) THEN q
    ELSE PutAll(put(q, Head(items)), Tail(items))
\* the tracks those puts stored
Stored(q, items) ==
    LET RECURSIVE n(_, _)
        n(qq, its) == IF its = <<>> \/ Rejects(qq) THEN 0
                      ELSE 1 + n(put(qq, Head(its)), Tail(its))
    IN SubSeq(items, 1, n(q, items))

QueueEnds(op, item, res) ==
    /\ result' = Result(op, item, res)
    /\ rest' = <<>>
    /\ UNCHANGED notQueueVars

\* Queue.put (queue.py:243-251)
QueuePut(item) ==
    /\ max_size = NoMax => Len(_queue) < MaxQueue
    /\ IF Rejects(_queue)
       THEN /\ QueueEnds("put", item, "QueueFull")
            /\ UNCHANGED _queue
       ELSE /\ _queue' = put(_queue, item)
            /\ QueueEnds("put", item, "ok")
    /\ cursor_at' = IF is_full(_queue) /\ _overflow THEN NoIndex ELSE cursor_at
    /\ UNCHANGED <<max_size, _overflow, _loop_mode, _current_item>>

\* Queue.put_at_index (queue.py:253-261)
QueuePutAtIndex(index, item) ==
    /\ max_size = NoMax => Len(_queue) < MaxQueue
    /\ IF Rejects(_queue)
       THEN /\ QueueEnds("put_at_index", item, "QueueFull")
            /\ UNCHANGED queueVars
       ELSE /\ _queue' = Insert(IF is_full(_queue) THEN _drop(_queue) ELSE _queue,
                                index, item)
            /\ QueueEnds("put_at_index", item, "ok")
            /\ cursor_at' = NoIndex
            /\ UNCHANGED <<max_size, _overflow, _loop_mode, _current_item, put_log,
                           get_log>>

\* an extend whose atomic check is left out
TooLong_unchecked(items, atomic) == FALSE

\* the check of an atomic extend (queue.py:277-285)
TooLong(items, atomic) ==
    atomic /\ ~_overflow /\ max_size # NoMax /\ Len(items) + Len(_queue) > max_size

\* Queue.extend (queue.py:267-287)
QueueExtend(items, atomic) ==
    /\ max_size = NoMax => Len(_queue) + Len(items) <= MaxQueue
    /\ IF TooLong(items, atomic)
       THEN /\ QueueEnds("extend", "-", "QueueFull")
            /\ UNCHANGED queueVars
       ELSE /\ _queue' = PutAll(_queue, items)
            /\ QueueEnds("extend", "-", IF Stored(_queue, items) = items THEN "ok"
                                        ELSE "QueueFull")
            /\ cursor_at' = IF _overflow /\ max_size # NoMax THEN NoIndex ELSE cursor_at
            /\ UNCHANGED <<max_size, _overflow, _loop_mode, _current_item, put_log,
                           get_log>>

\* a _get that pops the tail
_get_last(q) == [item |-> q[Len(q)], q |-> SubSeq(q, 1, Len(q) - 1)]

\* Queue._get (queue.py:110-111)
_get(q) == [item |-> Head(q), q |-> Tail(q)]

\* the index get takes the next track of the loop from (queue.py:201-213);
\* "not self._current_item" holds for None only, Track has no __bool__
NextIndex(q, current) ==
    LET c == IF current = NoItem THEN q[1] ELSE current
    IN IF _index(c, q) = Len(q) - 1 THEN 0 ELSE _index(c, q) + 1

\* Queue.get (queue.py:184-218). In queue mode with a _current_item that
\* is not in the queue get calls itself before it changed anything
\* (queue.py:198-199), and so on until Python raises RecursionError.
QueueGet ==
    /\ IF _loop_mode = "track"
       THEN /\ QueueEnds("get", "-", _current_item)
            /\ UNCHANGED <<_queue, _current_item, cursor_at>>
       ELSE IF _queue = <<>>
       THEN /\ QueueEnds("get", "-", "QueueEmpty")
            /\ UNCHANGED <<_queue, _current_item, cursor_at>>
       ELSE IF _loop_mode = "queue"
       THEN IF ~In(_current_item, _queue)
            THEN /\ QueueEnds("get", "-", "RecursionError")
                 /\ UNCHANGED <<_queue, _current_item, cursor_at>>
            ELSE /\ cursor_at' = NextIndex(_queue, _current_item)
                 /\ _current_item' = _queue[cursor_at' + 1]
                 /\ QueueEnds("get", "-", _current_item')
                 /\ UNCHANGED _queue
       ELSE /\ _queue' = _get(_queue).q
            /\ _current_item' = _get(_queue).item
            /\ cursor_at' = NoIndex
            /\ QueueEnds("get", "-", _current_item')
    /\ UNCHANGED <<max_size, _overflow, _loop_mode>>

\* the history of put and get: what each stored and returned
Recorded ==
    /\ put_log' = IF result'.op = "put" /\ result'.res = "ok"
                  THEN Append(put_log, result'.who) ELSE put_log
    /\ get_log' = IF result'.op = "get" /\ result'.res \in Items
                  THEN Append(get_log, result'.res) ELSE get_log
\* no history is kept
Unrecorded == UNCHANGED <<put_log, get_log>>

\* Queue.remove (queue.py:229-234)
QueueRemove(item) ==
    /\ IF In(item, _queue)
       THEN /\ _queue' = _remove(_queue, item)
            /\ QueueEnds("remove", item, "ok")
       ELSE /\ QueueEnds("remove", item, "ValueError")
            /\ UNCHANGED _queue
    /\ cursor_at' = NoIndex
    /\ UNCHANGED <<max_size, _overflow, _loop_mode, _current_item, put_log, get_log>>

\* Queue.clear (queue.py:296-298)
QueueClear ==
    /\ _queue' = <<>>
    /\ QueueEnds("clear", "-", "ok")
    /\ cursor_at' = NoIndex
    /\ UNCHANGED <<max_size, _overflow, _loop_mode, _current_item, put_log, get_log>>

\* the orders of q
Shuffles(q) ==
    {[i \in 1..Len(q) |-> q[f[i]]] :
        f \in {h \in [1..Len(q) -> 1..Len(q)] :
                 \A i, j \in 1..Len(q) : h[i] = h[j] => i = j}}

\* Queue.shuffle (queue.py:331-333)
QueueShuffle ==
    /\ _queue' \in Shuffles(_queue)
    /\ QueueEnds("shuffle", "-", "ok")
    /\ cursor_at' = NoIndex
    /\ UNCHANGED <<max_size, _overflow, _loop_mode, _current_item, put_log, get_log>>

\* Queue.jump (queue.py:340-344)
QueueJump(item) ==
    /\ IF In(item, _queue)
       THEN /\ _queue' = From(_queue, _index(item, _queue))
            /\ QueueEnds("jump", item, "ok")
       ELSE /\ QueueEnds("jump", item, "ValueError")
            /\ UNCHANGED _queue
    /\ cursor_at' = NoIndex
    /\ UNCHANGED <<max_size, _overflow, _loop_mode, _current_item, put_log, get_log>>

\* Queue.set_loop_mode (queue.py:300-313): in queue mode a _current_item
\* that is not in the queue, None too, is inserted at index 0
SetLoopMode(mode) ==
    /\ mode = "queue" => Len(_queue) <= MaxQueue
    /\ _loop_mode' = mode
    /\ IF mode = "queue"
       THEN LET index == IF In(_current_item, _queue)
                         THEN _index(_current_item, _queue) ELSE 0
            IN /\ _queue' = IF In(_current_item, _queue) THEN _queue
                            ELSE Insert(_queue, index, _current_item)
               /\ _current_item' = _queue'[index + 1]
               /\ cursor_at' = index
       ELSE UNCHANGED <<_queue, _current_item, cursor_at>>
    /\ QueueEnds("set_loop_mode", mode, "ok")
    /\ UNCHANGED <<max_size, _overflow, put_log, get_log>>

\* Queue.disable_loop (queue.py:316-328)
DisableLoop ==
    /\ IF _loop_mode = "None"
       THEN /\ QueueEnds("disable_loop", "-", "QueueException")
            /\ UNCHANGED <<_queue, _loop_mode>>
       ELSE IF _loop_mode = "queue" /\ ~In(_current_item, _queue)
       THEN /\ QueueEnds("disable_loop", "-", "ValueError")
            /\ UNCHANGED <<_queue, _loop_mode>>
       ELSE /\ _queue' = IF _loop_mode = "queue"
                         THEN From(_queue, _index(_current_item, _queue) + 1)
                         ELSE _queue
            /\ _loop_mode' = "None"
            /\ QueueEnds("disable_loop", "-", "ok")
    /\ cursor_at' = NoIndex
    /\ UNCHANGED <<max_size, _overflow, _current_item, put_log, get_log>>

\* ------------------------------------------------------------------ Next
\* create_node and the receive loop of node n
Connecting(n) ==
    \/ \E fb \in BOOLEAN : CreateNodeStart(n, fb)
    \/ VersionProbe(n)
    \/ Handshake(n)
    \/ HandleReady(n)

\* the socket of node n drops; the loop retries
Dropping(n) ==
    \/ \E up \in BOOLEAN : WsClose(n, up)
    \/ RemoteUp(n)
    \/ ListenOnClose(n)
    \/ ListenWake(n)
    \/ Reconnect(n)

\* Node.disconnect of node n
Disconnecting(n) ==
    \/ DisconnectStart(n)
    \/ \E g \in Guilds : DisconnectDestroy(n, g)
    \/ DisconnectCloseWs(n)
    \/ DisconnectFinish(n)

\* the node switch of node n
Switching(n) ==
    \/ SwitchStart(n)
    \/ \E g \in Guilds : SwitchSwap(n, g)
    \/ SwitchDisconnect(n)

\* the life of the player of guild g
Binding(g) ==
    \/ \E arg \in Nodes \cup {NoNode} : PlayerInit(g, arg)
    \/ PlayerConnect(g)
    \/ PlayerDestroy(g)
    \/ DestroyTask(g)

\* the player's REST commands
Commanding(g) ==
    \/ PlayerUpdate(g)
    \/ \E f1 \in BOOLEAN, f2 \in BOOLEAN : PlayerPlay(g, "resolved", f1, f2)

\* Player.play of any track
Playing(g) ==
    \E t \in Tracks, f1 \in BOOLEAN, f2 \in BOOLEAN : PlayerPlay(g, t, f1, f2)

\* the messages the node sends about the player of guild g
Events(g) ==
    \/ \E reason \in Reasons : TrackEnd(g, reason)
    \/ \E connected \in BOOLEAN : UpdateState(g, connected)

\* the voice events Discord sends for guild g
Voice(g) ==
    \/ \E ev \in VoiceEvents : OnVoiceServerUpdate(g, ev)
    \/ \E sid \in VoiceSessions, channel \in BOOLEAN, token \in VoiceEvents \cup {"absent"} :
           OnVoiceStateUpdate(g, sid, channel, token)

\* the node of pomice/node.py
Legacy ==
    \/ \E task \in BOOLEAN, up \in BOOLEAN : LgConnect(task, up)
    \/ LgClose
    \/ LgListenClosed
    \/ \E raised \in BOOLEAN : LgListenWake(raised)

\* One node through its whole life and one guild's player on it.
Next ==
    \/ Connecting("n1") \/ Dropping("n1") \/ Disconnecting("n1") \/ Switching("n1")
    \/ Binding("g1") \/ Commanding("g1")

Spec == Init /\ [][Next]_vars

\* ---------------------------------------------------- the version check
\* create_node against a remote node that reports any version string
InitVersion ==
    /\ InitNodes /\ InitPlayers /\ InitLegacy /\ InitExtra
    /\ InitRemote({"n1"}, VersionStrings)

NextVersion == Connecting("n1")

SpecVersion == InitVersion /\ [][NextVersion]_vars

\* ------------------------------------------------------ the voice events
\* a player on a node, and the voice events of its guild
NextVoice ==
    \/ Connecting("n1")
    \/ \E arg \in {"n1", NoNode} : PlayerInit("g1", arg)
    \/ PlayerConnect("g1")
    \/ PlayerDestroy("g1")
    \/ PlayerDisconnect("g1")
    \/ Voice("g1")

SpecVoice == Init /\ [][NextVoice]_vars

\* ---------------------------------------------------- the receive loops
\* the connection of pool.py and the connection of node.py, each with
\* websocket closes and reconnects, without Node.disconnect
NextLoops == Connecting("n1") \/ Dropping("n1") \/ Legacy

SpecLoops == Init /\ [][NextLoops]_vars

\* ------------------------------------------------- reconnect, no failover
\* a node created with fallback=False whose websocket drops; nobody calls
\* Node.disconnect
NextReconnect ==
    \/ CreateNodeStart("n1", FALSE)
    \/ VersionProbe("n1")
    \/ Handshake("n1")
    \/ HandleReady("n1")
    \/ Dropping("n1")
    \/ \E arg \in {"n1", NoNode} : PlayerInit("g1", arg)
    \/ PlayerConnect("g1")
    \/ DestroyTask("g1")

\* the event loop runs every task that is ready, and a sleep ends
FairReconnect ==
    /\ WF_vars(ListenOnClose("n1"))
    /\ WF_vars(ListenWake("n1"))
    /\ WF_vars(Reconnect("n1"))

SpecReconnect == Init /\ [][NextReconnect]_vars /\ FairReconnect

\* --------------------------------------------------------------- failover
\* the pool already holds the sibling n2, connected, with its "ready"
\* message handled; n1 is created with fallback=True
InitFailover ==
    /\ _nodes = <<"n2">>
    /\ _fallback = [n \in Nodes |-> FALSE]
    /\ _websocket = [n \in Nodes |-> IF n = "n2" THEN "open" ELSE "unset"]
    /\ _task = [n \in Nodes |-> IF n = "n2" THEN "recv" ELSE "None"]
    /\ _session_id = [n \in Nodes |-> IF n = "n2" THEN 1 ELSE NoSession]
    /\ _available = [n \in Nodes |-> n = "n2"]
    /\ available = [n \in Nodes |-> "unset"]
    /\ _version = [n \in Nodes |-> IF n = "n2" THEN LavalinkVersion(3, 7, 1)
                                   ELSE LavalinkVersion(0, 0, 0)]
    /\ _session = [n \in Nodes |-> IF n = "n2" THEN "open" ELSE "None"]
    /\ _players = [n \in Nodes |-> {}]
    /\ ws_ready = [n \in Nodes |-> NoSession]
    /\ next_sid = (1 % MaxSession) + 1
    /\ closes = 0
    /\ create_pc = [n \in Nodes |-> IF n = "n2" THEN "done" ELSE "idle"]
    /\ connect_tasks = [n \in Nodes |-> 0]
    /\ destroy_tasks = {}
    /\ switch_pc = [n \in Nodes |-> "none"]
    /\ switch_new = [n \in Nodes |-> NoNode]
    /\ switch_todo = [n \in Nodes |-> {}]
    /\ disc_pc = [n \in Nodes |-> "none"]
    /\ disc_todo = [n \in Nodes |-> {}]
    /\ disc_log = [n \in Nodes |-> <<>>]
    /\ closed_with = [n \in Nodes |-> {}]
    /\ attempt_failed = [n \in Nodes |-> FALSE]
    /\ InitPlayers /\ InitLegacy /\ InitExtra
    /\ InitRemote({}, PoolVersions)

NextFailover ==
    \/ CreateNodeStart("n1", TRUE)
    \/ VersionProbe("n1")
    \/ Handshake("n1")
    \/ HandleReady("n1")
    \/ Dropping("n1")
    \/ Switching("n1")
    \/ \E g \in Guilds : DisconnectDestroy("n1", g)
    \/ DisconnectCloseWs("n1")
    \/ DisconnectFinish("n1")
    \/ PlayerInit("g1", "n1")
    \/ PlayerConnect("g1")
    \/ DestroyTask("g1")
    \/ \E f1 \in BOOLEAN, f2 \in BOOLEAN : PlayerPlay("g1", "resolved", f1, f2)

SpecFailover == InitFailover /\ [][NextFailover]_vars

\* ------------------------------------------------------------ the player
\* one node, running Lavalink 3 or Lavalink 4, and one guild's player: it
\* is made, connected, plays tracks of every kind, receives the node's
\* messages and is destroyed
InitPlayer ==
    /\ InitNodes /\ InitPlayers /\ InitLegacy /\ InitExtra
    /\ InitRemote({"n1"}, {Str(<<4, 0, 0>>)})

NextPlayer ==
    \/ Connecting("n1")
    \/ \E arg \in {"n1", NoNode} : PlayerInit("g1", arg)
    \/ PlayerConnect("g1")
    \/ PlayerDestroy("g1")
    \/ Playing("g1")
    \/ Events("g1")

SpecPlayer == InitPlayer /\ [][NextPlayer]_vars

\* ------------------------------------------------------------ the filters
\* one node, whose socket may drop with the remote node gone, and one
\* guild's player: it plays tracks with and without filters and the
\* application adds and removes filters
Filtering(g) ==
    \/ \E filter \in Filters : AddFilter(g, filter)
    \/ \E filter_tag \in Filters : RemoveFilter(g, filter_tag)
    \/ ResetFilters(g)

NextFilters ==
    \/ Connecting("n1")
    \/ \E up \in BOOLEAN : WsClose("n1", up)
    \/ PlayerInit("g1", "n1")
    \/ Playing("g1")
    \/ Filtering("g1")

SpecFilters == Init /\ [][NextFilters]_vars

\* the same player; the application sets filters, volume and pause and
\* plays nothing
NextMirror ==
    \/ Connecting("n1")
    \/ \E up \in BOOLEAN : WsClose("n1", up)
    \/ PlayerInit("g1", "n1")
    \/ \E pause \in BOOLEAN : SetPause("g1", pause)
    \/ \E volume \in Volumes : SetVolume("g1", volume)
    \/ Filtering("g1")

SpecMirror == Init /\ [][NextMirror]_vars

\* ------------------------------------------------------------ selection
\* the pool holds n2 and the application creates n1; the remote nodes
\* restart with other releases, websockets drop, the application calls
\* Node.connect again, disconnects n1, and selects nodes
NextSelect ==
    \/ Connecting("n1")
    \/ \E n \in Nodes, up \in BOOLEAN : WsClose(n, up)
    \/ \E n \in Nodes : RemoteUp(n)
    \/ \E n \in Nodes, version \in PoolVersions : RemoteRestart(n, version)
    \/ \E n \in Nodes : NodeConnect(n)
    \/ DisconnectStart("n1")
    \/ DisconnectCloseWs("n1")
    \/ DisconnectFinish("n1")
    \/ \E identifier \in Nodes \cup {NoNode} : GetNode(identifier)
    \/ \E algorithm \in Algorithms : GetBestNode(algorithm)

SpecSelect == InitFailover /\ [][NextSelect]_vars

\* ------------------------------------------------------------ the best node
\* both nodes are in the pool, connected, registered in either order
InitBest ==
    /\ _nodes \in {<<"n1", "n2">>, <<"n2", "n1">>}
    /\ _fallback = [n \in Nodes |-> FALSE]
    /\ _websocket = [n \in Nodes |-> "open"]
    /\ _task = [n \in Nodes |-> "recv"]
    /\ _session_id = [n \in Nodes |-> IF n = _nodes[1] THEN 1 ELSE 2]
    /\ _available = [n \in Nodes |-> TRUE]
    /\ available = [n \in Nodes |-> "unset"]
    /\ _version = [n \in Nodes |-> LavalinkVersion(3, 7, 1)]
    /\ _session = [n \in Nodes |-> "open"]
    /\ _players = [n \in Nodes |-> {}]
    /\ ws_ready = [n \in Nodes |-> NoSession]
    /\ next_sid = (2 % MaxSession) + 1
    /\ closes = 0
    /\ create_pc = [n \in Nodes |-> "done"]
    /\ connect_tasks = [n \in Nodes |-> 0]
    /\ destroy_tasks = {}
    /\ switch_pc = [n \in Nodes |-> "none"]
    /\ switch_new = [n \in Nodes |-> NoNode]
    /\ switch_todo = [n \in Nodes |-> {}]
    /\ disc_pc = [n \in Nodes |-> "none"]
    /\ disc_todo = [n \in Nodes |-> {}]
    /\ disc_log = [n \in Nodes |-> <<>>]
    /\ closed_with = [n \in Nodes |-> {}]
    /\ attempt_failed = [n \in Nodes |-> FALSE]
    /\ InitPlayers /\ InitLegacy /\ InitExtra
    /\ InitRemote({}, PoolVersions)

\* players come and go on the two nodes, the nodes' latency changes, n1's
\* remote node restarts and the application reconnects it
NextBest ==
    \/ \E g \in Guilds, arg \in Nodes : PlayerInit(g, arg)
    \/ \E g \in Guilds : PlayerConnect(g)
    \/ \E g \in Guilds : PlayerDestroy(g)
    \/ \E n \in Nodes, l \in 0..MaxLatency : LatencyChange(n, l)
    \/ \E version \in PoolVersions : RemoteRestart("n1", version)
    \/ NodeConnect("n1")
    \/ \E algorithm \in Algorithms : GetBestNode(algorithm)

SpecBest == InitBest /\ [][NextBest]_vars

\* ------------------------------------------------------- the Queue alone
\* a Queue of any max_size and overflow policy; no node, no player
InitQueues(sizes, overflows) ==
    /\ InitNodes /\ InitPlayers /\ InitLegacy /\ InitObjects
    /\ InitBackoff({ListenBase})
    /\ InitRemote({}, {})
    /\ InitQueue(sizes, overflows)

\* put and get, no loop mode, with their history
NextFifo ==
    \/ \E item \in Items : Len(put_log) < MaxPuts /\ QueuePut(item) /\ Recorded
    \/ QueueGet /\ Recorded

InitFifo == InitQueues({NoMax} \cup 1..MaxSize, BOOLEAN)
SpecFifo == InitFifo /\ [][NextFifo]_vars

\* what an extend is given
Batches == {<<"A">>, <<"B", "C">>}

\* a Queue with a max_size
NextFull ==
    \/ \E item \in Items : QueuePut(item) /\ Unrecorded
    \/ \E index \in 0..MaxQueue, item \in Items : QueuePutAtIndex(index, item)
    \/ \E items \in Batches, atomic \in BOOLEAN : QueueExtend(items, atomic)
    \/ QueueGet /\ Unrecorded

InitFull == InitQueues(1..MaxSize, BOOLEAN)
SpecFull == InitFull /\ [][NextFull]_vars

\* a Queue() and its loop modes
NextQueue ==
    \/ \E item \in Items : QueuePut(item) /\ Unrecorded
    \/ QueueGet /\ Unrecorded
    \/ \E item \in Items : QueueRemove(item)
    \/ QueueClear
    \/ QueueShuffle
    \/ \E item \in Items : QueueJump(item)
    \/ \E mode \in LoopModes : SetLoopMode(mode)
    \/ DisableLoop

InitLoop == InitQueues({NoMax}, {TRUE})
SpecQueue == InitLoop /\ [][NextQueue]_vars

\* a Queue with a max_size and its loop modes, two tracks
NextBounded ==
    \/ \E item \in {"A", "B"} : QueuePut(item) /\ Unrecorded
    \/ QueuePutAtIndex(0, "B")
    \/ \E atomic \in BOOLEAN : QueueExtend(<<"A", "B">>, atomic)
    \/ QueueGet /\ Unrecorded
    \/ \E mode \in LoopModes : SetLoopMode(mode)
    \/ DisableLoop
    \/ QueueJump("B")
    \/ QueueRemove("A")

SpecBounded == InitFull /\ [][NextBounded]_vars

\* --------------------------------------------------- the handler tasks
\* one node running Lavalink 4 whose socket may drop, one guild's player
\* that is made, connected and destroyed, and the node's messages about
\* it, each handled by a task of its own
NextMessages ==
    \/ Connecting("n1")
    \/ Dropping("n1")
    \/ PlayerInit("g1", "n1")
    \/ PlayerConnect("g1")
    \/ PlayerDestroy("g1")
    \/ DestroyTask("g1")
    \/ \E arg \in {"finished", "replaced"} : ListenRecv("n1", Message("g1", "event", arg))
    \/ \E arg \in BOOLEAN : ListenRecv("n1", Message("g1", "playerUpdate", arg))
    \/ HandleWsMsg("n1")

SpecMessages == InitPlayer /\ [][NextMessages]_vars

\* ------------------------------------------------------ a backoff alone
InitDelays ==
    /\ InitNodes /\ InitPlayers /\ InitLegacy /\ InitObjects
    /\ InitRemote({}, {})
    /\ InitQueue({NoMax}, {TRUE})
    /\ InitBackoff(Bases)

NextDelays ==
    \E interval \in Intervals(backoff) :
        \E r \in Draws(Window(Delayed(backoff, interval))) : BackoffDelay(interval, r)

SpecDelays == InitDelays /\ [][NextDelays]_vars

\* ------------------------------------------- create_node calls that overlap
NextCreate ==
    \/ \E c \in Calls, identifier \in Identifiers : CreateCallStart(c, identifier)
    \/ \E c \in Calls, connected \in BOOLEAN : CreateCallFinish(c, connected)
    \/ \E c \in Calls : CallNodeDisconnect(c)

SpecCreate == Init /\ [][NextCreate]_vars

\* ================================================================ claims
\* the calls of the last step made on a player endpoint
PlayerCalls == {i \in 1..Len(rest) : rest[i].guild \in Guilds}

\* C1: a voice PATCH goes to the node only when the player holds both a
\* voice session id and a voice-server event: a voice state update that
\* arrives while no event is held makes no REST call, and a voice server
\* update that arrives while a session id is held makes exactly one PATCH,
\* carrying the event (token, endpoint) and the session id.
C1_VoicePatch ==
    /\ \A i \in PlayerCalls :
           rest[i].kind = "voice" =>
               /\ rest[i].method = "PATCH"
               /\ _voice_state[rest[i].guild].sessionId # "absent"
               /\ _voice_state[rest[i].guild].event # "absent"
    /\ \A g \in Guilds :
           (result.op = "on_voice_state_update" /\ result.who = g
                /\ _voice_state[g].event = "absent")
           => rest = <<>>
    /\ \A g \in Guilds :
           (result.op = "on_voice_server_update" /\ result.who = g
                /\ _voice_state[g].sessionId # "absent")
           => /\ Len(rest) = 1
              /\ rest[1].kind = "voice" /\ rest[1].method = "PATCH"
              /\ rest[1].guild = g
              /\ rest[1].data = <<_voice_state[g].event, _voice_state[g].sessionId>>

\* a voice server update after a voice state update has put its one PATCH
\* on the wire
C1_Witness ==
    /\ result.op = "on_voice_server_update"
    /\ Len(rest) = 1 /\ rest[1].kind = "voice" /\ Issued(rest[1])
    /\ rest[1].data[2] \in VoiceSessions

\* C2: in every reachable state a node whose _available flag is true has
\* its session id set, that is, its "ready" message was received.
C2_AvailableHasSession ==
    \A n \in Nodes : _available[n] => _session_id[n] # NoSession

\* C3: once the listen loop has seen the websocket close, and until a
\* reconnect reopens it, the node's _available flag is false; it is false
\* too after Node.disconnect has returned.
C3_ClosedUnavailable ==
    \A n \in Nodes :
        (_websocket[n] = "closed" /\ (_task[n] = "sleep" \/ disc_pc[n] = "done"))
        => ~_available[n]

\* C4: every call of Node.send made while _available is false, other than
\* the version probe of connect, ends in NodeNotAvailable and puts no HTTP
\* request on the wire; Player.play on an unavailable node raises and puts
\* no request on the wire.
C4_Unavailable ==
    /\ \A i \in 1..Len(rest) :
           (rest[i].kind # "version" /\ ~_available[rest[i].node])
           => rest[i].outcome = "NodeNotAvailable" /\ ~Issued(rest[i])
    /\ \A g \in Guilds :
           (result.op = "play" /\ result.who = g /\ ~_available[_node[g]])
           => /\ result.res \in {"NodeNotAvailable", "TrackLoadError"}
              /\ \A i \in 1..Len(rest) : ~Issued(rest[i])

\* Player.play of a resolved track on a node that is not available has
\* raised NodeNotAvailable from its PATCH
C4_Witness ==
    \E g \in Guilds :
        /\ result = Result("play", g, "NodeNotAvailable")
        /\ ~_available[_node[g]]
        /\ Len(rest) = 1 /\ rest[1].kind = "play"

\* C5: with fallback set and another connected node in the pool, once the
\* tasks started by a websocket close have run and the node switch has torn
\* the failed node down, every player that was bound to the failed node is
\* bound to the sibling the switch chose: in that node's player map, and
\* not destroyed.
C5_Failover ==
    \A n \in Nodes :
        (_fallback[n] /\ switch_pc[n] = "done" /\ switch_new[n] \notin {n, NoNode}
             /\ destroy_tasks = {})
        => \A g \in closed_with[n] :
               g \in _players[switch_new[n]] /\ pstate[g] = "bound"

\* C6: with fallback off, whenever the websocket of a node has closed
\* mid-session and the remote node from some time on accepts connections,
\* the node gets connected again with _available true, however many
\* reconnect attempts failed before.
C6_Reconnects ==
    (<>[]remote_up["n1"])
    => [](_websocket["n1"] = "closed"
          => <>(is_connected("n1") /\ _available["n1"]))

\* a reconnect attempt failed, and a later one reopened the websocket
C6_Witness ==
    /\ ~_fallback["n1"]
    /\ closes > 0
    /\ attempt_failed["n1"]
    /\ is_connected("n1") /\ _available["n1"]

\* C7: every request a player puts on the wire has in its path the session
\* id its node has now, and never an unset session id.
C7_SessionPath ==
    \A i \in PlayerCalls :
        Issued(rest[i])
        => rest[i].sid # NoSession /\ rest[i].sid = _session_id[rest[i].node]

\* C8: while a node is connected exactly one listen task of it is alive,
\* and never more than one, over connect, websocket close and reconnect:
\* for the Node of pool.py and for the Node of node.py.
C8_OneLoop ==
    /\ \A n \in Nodes : is_connected(n) => _task[n] \in {"recv", "sleep"}
    /\ lg_ws = "open" => lg_listeners.recv + lg_listeners.sleep = 1
    /\ lg_listeners.recv + lg_listeners.sleep <= 1

\* the entries of the log of Node.disconnect of node n come in the order:
\* players destroyed, websocket closed, HTTP session closed, node removed
DiscRank(e) ==
    IF e \in Guilds THEN 1
    ELSE IF e = "ws" THEN 2
    ELSE IF e = "http" THEN 3
    ELSE IF e = "remove" THEN 4
    ELSE 5
DiscOrdered(n) ==
    \A i \in 1..Len(disc_log[n]), j \in 1..Len(disc_log[n]) :
        i < j => DiscRank(disc_log[n][i]) <= DiscRank(disc_log[n][j])

\* C9: Node.disconnect destroys the node's players, then closes the
\* websocket and the HTTP session, then removes the node from the pool;
\* when it returns the node has no bound player, is not in the pool and
\* its listen task is cancelled.
C9_Disconnect ==
    \A n \in Nodes :
        result = Result("disconnect", n, "ok")
        => /\ DiscOrdered(n)
           /\ _players[n] = {}
           /\ ~InPool(n)
           /\ _task[n] = "cancelled"

\* (major, minor, fix) >= (3, 7, 0) in lexicographic order
AtLeast370(v) ==
    \/ v[1] > 3
    \/ v[1] = 3 /\ v[2] > 7
    \/ v[1] = 3 /\ v[2] = 7 /\ v[3] >= 0

\* C10: when the version probe has returned a version string that parses,
\* connect goes on to the websocket exactly when the parsed (major, minor,
\* fix) is at least (3, 7, 0) in lexicographic order, and otherwise the
\* node is marked unavailable and the connect attempt fails.
C10_VersionGate ==
    \A n \in Nodes :
        (Len(rest) = 1 /\ rest[1].kind = "version" /\ rest[1].node = n
             /\ rest[1].outcome = "ok"
             /\ remote_version[n].suffix = "" /\ version_matches(remote_version[n]))
        => IF AtLeast370(version_groups(remote_version[n]))
           THEN create_pc[n] = "websocket"
           ELSE create_pc[n] = "failed" /\ ~_available[n]

\* C11: the entry NodePool._nodes holds under an identifier is never
\* replaced by another Node object, also when create_node calls for the
\* same identifier overlap: a step leaves each entry as it is or removes it.
C11_NoOverwrite ==
    [][\A i \in Identifiers :
           cn_nodes[i] # "None" => cn_nodes'[i] \in {cn_nodes[i], "None"}]_vars

\* C12: a node whose first connect has not succeeded (the version probe or
\* the websocket handshake is under way, or it failed and create_node
\* raised) is not in the pool, has no listen task and no reconnect task,
\* however long it stays so.
C12_RegisteredAfterConnect ==
    \A n \in Nodes :
        create_pc[n] \in {"version", "websocket", "failed"}
        => /\ ~InPool(n)
           /\ _task[n] = "None"
           /\ connect_tasks[n] = 0
           /\ _websocket[n] # "open"

\* create_node has raised because the remote node answered the version
\* probe with a version below 3.7.0
C12_Witness ==
    /\ create_pc["n1"] = "failed"
    /\ _version["n1"] = LavalinkVersion(3, 0, 0)
    /\ Len(rest) = 1 /\ rest[1].outcome = "ok"
    /\ _nodes = <<>>

\* C13: a call of get_node, with or without identifier, or of
\* get_best_node that returns a node returns one that is in the pool with
\* _available true, whatever happened to the nodes before, and a call made
\* when the pool holds no available node raises NoNodesAvailable.
C13_SelectorsAvailable ==
    result.op \in {"get_node", "get_best_node"}
    => /\ result.res = "ok" => InPool(result.who) /\ _available[result.who]
       /\ (\A n \in Nodes : InPool(n) => ~_available[n])
          => result.res = "NoNodesAvailable"

\* get_best_node returned a node while the pool held another one whose
\* _available is false
C13_Witness ==
    /\ result.op = "get_best_node"
    /\ result.res = "ok"
    /\ \E n \in Nodes : InPool(n) /\ ~_available[n] /\ _websocket[n] = "closed"

\* C14: the node get_best_node returns for by_ping or by_players is
\* available, no available node has a smaller metric (latency, number of
\* players in the node's map), and no available node with the same metric
\* was registered before it.
C14_FirstMinimum ==
    [][\A algorithm \in {"by_ping", "by_players"} :
         GetBestNode(algorithm) /\ result'.res = "ok"
         => LET best == result'.who
                metric(n) == IF algorithm = "by_ping" THEN latency[n]
                             ELSE Cardinality(_players[n])
                registered(n) == CHOOSE i \in 1..Len(_nodes) : _nodes[i] = n
            IN /\ InPool(best) /\ _available[best]
               /\ \A n \in Nodes :
                    InPool(n) /\ _available[n]
                    => \/ metric(n) > metric(best)
                       \/ /\ metric(n) = metric(best)
                          /\ registered(n) >= registered(best)]_vars

\* both nodes are available with one player each and the same latency, and
\* get_best_node returned n2, registered first
C14_Witness ==
    /\ _nodes = <<"n2", "n1">>
    /\ \A n \in Nodes : _available[n] /\ Cardinality(_players[n]) = 1
    /\ latency["n1"] = latency["n2"]
    /\ result = Result("get_best_node", "n2", "ok")

\* the searches among the calls of a step
Searches(calls) == SelectSeq(calls, LAMBDA call : call.kind = "loadtracks")

\* C15: play of a track whose original is None searches by ISRC first when
\* the track has one, and by title and author only when there is no ISRC
\* or that search raised or found nothing; when a search finds a candidate
\* the track gets the candidate as original and its id as track id; play
\* of a track whose original is set makes no search and leaves the track
\* as it is.
C15_ResolveOnce ==
    [][\A g \in Guilds, t \in Tracks, f1 \in BOOLEAN, f2 \in BOOLEAN :
         PlayerPlay(g, t, f1, f2)
         => LET searches == Searches(rest') IN
            IF original[t] # "None"
            THEN /\ searches = <<>>
                 /\ original'[t] = original[t] /\ track_id'[t] = track_id[t]
            ELSE /\ Len(searches) \in {1, 2}
                 /\ searches[1].data = <<IF isrc(t) THEN "isrc" ELSE "title - author">>
                 /\ Len(searches) = 2
                    => /\ searches[2].data = <<"title - author">>
                       /\ searches[1].outcome # "ok" \/ ~f1
                 /\ (isrc(t) /\ searches[1].outcome = "ok" /\ f1) => Len(searches) = 1
                 /\ result'.res # "TrackLoadError"
                    => /\ original'[t] = "search" /\ track_id'[t] = "found"
                       /\ rest'[Len(rest')].kind = "play"
                       /\ rest'[Len(rest')].data = <<"found">>]_vars

\* the track with an ISRC has been resolved by an earlier play and is
\* played again: the play PATCH with the id found then, no search
C15_Witness ==
    /\ original["isrc"] = "search"
    /\ track_id["isrc"] = "found"
    /\ result = Result("play", "g1", "ok")
    /\ Searches(rest) = <<>>
    /\ rest # <<>> /\ rest[Len(rest)].kind = "play"
    /\ rest[Len(rest)].data = <<"found">>
    /\ _current["g1"] = "isrc"

\* C16: when play of an unresolved track finds no candidate, the ISRC
\* search (made when the track has an ISRC) and the title-author search
\* each having raised or found nothing, play raises TrackLoadError, makes
\* no PATCH, and leaves the track's original and id and the player's
\* current track as they were.
C16_LoadError ==
    [][\A g \in Guilds, t \in Tracks, f1 \in BOOLEAN, f2 \in BOOLEAN :
         (/\ PlayerPlay(g, t, f1, f2)
          /\ original[t] = "None"
          /\ isrc(t) => (send(_node[g], FALSE) # "ok" \/ ~f1)
          /\ send(_node[g], FALSE) # "ok" \/ ~f2)
         => /\ result' = Result("play", g, "TrackLoadError")
            /\ \A i \in 1..Len(rest') : rest'[i].kind = "loadtracks"
            /\ original' = original
            /\ track_id' = track_id
            /\ _current'[g] = _current[g]]_vars

\* while the resolved track is current, play of the track with an ISRC has
\* made both searches, both answered without a candidate, and has raised
C16_Witness ==
    /\ result = Result("play", "g1", "TrackLoadError")
    /\ Len(rest) = 2 /\ rest[1].outcome = "ok" /\ rest[2].outcome = "ok"
    /\ original["isrc"] = "None" /\ track_id["isrc"] = "isrc"
    /\ _current["g1"] = "resolved"

\* C17: a TrackEndEvent leaves the player's current track as it is when its
\* reason is 'REPLACED' or 'replaced' and sets it to None for every other
\* reason.
C17_ReplacedKept ==
    [][\A g \in Guilds, reason \in Reasons :
         TrackEnd(g, reason)
         => _current'[g] = IF reason \in {"REPLACED", "replaced"}
                           THEN _current[g] ELSE "None"]_vars

\* C18: Player.destroy called on a player that has been destroyed raises
\* nothing and leaves the player and the nodes' player maps as they were.
C18_DestroyIdempotent ==
    [][\A g \in Guilds :
         PlayerDestroy(g) /\ pstate[g] = "destroyed"
         => /\ result' = Result("destroy", g, "ok")
            /\ _players' = _players
            /\ pstate'[g] = "destroyed" /\ ~_is_connected'[g]]_vars

\* C19: while a player is connected to its node and no voice disconnect has
\* happened, its _is_connected is true exactly when the last playerUpdate
\* it received reported connected=true; before the first playerUpdate it
\* is false.
C19_ConnectedFlag ==
    \A g \in Guilds :
        pstate[g] = "bound" => (_is_connected[g] <=> last_update[g] = "true")

\* C20: when the node switch swaps a player that is in its node's map to a
\* new node that answers, _swap_node ends without error with the player in
\* the new node's map only, bound to it, its REST path on the new node's
\* session id; with a current track its last call is the play PATCH
\* carrying track id, position, volume and pause state, and without one it
\* sends no play PATCH.
C20_SwapNode ==
    [][\A n \in Nodes, g \in Guilds :
         (/\ SwitchSwap(n, g)
          /\ g \in _players[_node[g]]
          /\ send(switch_new[n], FALSE) = "ok")
         => /\ result' = Result("_swap_node", g, "ok")
            /\ _node'[g] = switch_new[n]
            /\ g \in _players'[switch_new[n]] /\ g \notin _players'[_node[g]]
            /\ _player_endpoint_uri'[g] = _session_id[switch_new[n]]
            /\ LET swaps == SelectSeq(rest', LAMBDA call : call.kind = "swap") IN
               IF _current[g] = "None" THEN swaps = <<>>
               ELSE /\ Len(swaps) = 1
                    /\ \A key \in {"encodedTrack", "position", "volume", "paused"} :
                         \E i \in 1..Len(swaps[1].data) : swaps[1].data[i] = key]_vars

\* the filters a list holds
Held(fs) == {fs[i] : i \in 1..Len(fs)}

\* C21: after a play that returned, the player's filter list holds a
\* preload filter only if it is one of the new track's filters and no
\* global filter was active, holds all of the new track's filters when no
\* global filter was active, and holds the same global filters as before.
C21_PlayFilters ==
    [][\A g \in Guilds, t \in Tracks, f1 \in BOOLEAN, f2 \in BOOLEAN :
         PlayerPlay(g, t, f1, f2) /\ result'.res = "ok"
         => LET before == Held(_filters[g])
                after == Held(_filters'[g])
                global == {f \in before : ~preload(f)}
            IN /\ \A f \in after :
                    preload(f) => f \in Held(TrackFilters(t)) /\ global = {}
               /\ global = {} => Held(TrackFilters(t)) \subseteq after
               /\ {f \in after : ~preload(f)} = global]_vars

\* the track of filters pre1 and pre2 was played before; play of the track
\* of filter pre2 has removed both and added pre2
C21_Witness ==
    /\ result = Result("play", "g1", "ok")
    /\ _current["g1"] = "noisrc"
    /\ _filters["g1"] = <<"pre2">>
    /\ Len(rest) = 4 /\ rest[1].kind = "filters" /\ rest[4].kind = "play"

\* C22: when the PATCH of set_pause, set_volume, add_filter, remove_filter
\* or reset_filters raises, the player's paused flag, volume and filter
\* list are what they were before the call.
C22_MirrorOnSuccess ==
    [][\A g \in Guilds :
         (/\ result'.op \in {"set_pause", "set_volume", "add_filter",
                             "remove_filter", "reset_filters"}
          /\ result'.who = g
          /\ Len(rest') = 1 /\ rest'[1].outcome # "ok")
         => /\ _paused'[g] = _paused[g]
            /\ _volume'[g] = _volume[g]
            /\ _filters'[g] = _filters[g]]_vars

\* C23: an on_voice_state_update without channel id leaves the player with
\* _is_connected false and an empty _voice_state and sends no voice PATCH.
C23_Leave ==
    [][\A g \in Guilds, sid \in VoiceSessions, token \in VoiceEvents \cup {"absent"} :
         OnVoiceStateUpdate(g, sid, FALSE, token)
         => /\ ~_is_connected'[g]
            /\ _voice_state'[g] = NoVoice
            /\ rest' = <<>>]_vars

\* no put dropped a track so far: every track stored is in the queue or
\* was returned
NoOverflow == Len(put_log) = Len(get_log) + Len(_queue)

\* C24: in loop mode none, while no overflow occurred, the k-th get that
\* returns a track returns the k-th track put and removes it: the tracks
\* returned followed by the tracks still queued are the tracks put, in
\* the order of the puts.
C24_Fifo ==
    (_loop_mode = "None" /\ NoOverflow) => put_log = get_log \o _queue

C24_Witness ==
    /\ _loop_mode = "None" /\ NoOverflow
    /\ Len(get_log) = 2 /\ get_log[1] # get_log[2]
    /\ Len(put_log) = 3 /\ put_log[3] # put_log[2]
    /\ result.op = "get"

\* C25: under the drop-oldest policy a put on a full queue does not raise,
\* evicts the head of the queue and stores the new track at the tail.
C25_DropOldest ==
    [][\A item \in Items :
         (QueuePut(item) /\ is_full(_queue) /\ _overflow)
         => /\ result'.res = "ok"
            /\ _queue' = Append(Tail(_queue), item)]_vars

\* C26: under the reject policy put and put_at_index on a full queue raise
\* QueueFull and leave the queue as it was, and an atomic extend that
\* would exceed max_size raises QueueFull and adds none of its tracks.
C26_Reject ==
    [][/\ \A item \in Items :
            (QueuePut(item) /\ is_full(_queue) /\ ~_overflow)
            => result'.res = "QueueFull" /\ _queue' = _queue
       /\ \A index \in 0..MaxQueue, item \in Items :
            (QueuePutAtIndex(index, item) /\ is_full(_queue) /\ ~_overflow)
            => result'.res = "QueueFull" /\ _queue' = _queue
       /\ \A items \in Batches :
            (/\ QueueExtend(items, TRUE)
             /\ ~_overflow /\ max_size # NoMax
             /\ Len(_queue) + Len(items) > max_size)
            => result'.res = "QueueFull" /\ _queue' = _queue]_vars

\* an atomic extend of two tracks was refused by a queue with one place left
C26_Witness ==
    /\ ~_overflow /\ max_size = 2 /\ Len(_queue) = 1
    /\ result.op = "extend" /\ result.res = "QueueFull"

\* C27: in loop=track mode on a queue holding one track every get returns
\* that track and leaves the length of the queue as it was.
C27_LoopTrack ==
    [][(QueueGet /\ _loop_mode = "track" /\ Len(_queue) = 1)
       => /\ result'.res = _queue[1]
          /\ Len(_queue') = Len(_queue)]_vars

\* the queue holds tracks only and the cursor is on the track at index
\* cursor_at
OnTrack ==
    /\ \A i \in 1..Len(_queue) : _queue[i] \in Items
    /\ cursor_at # NoIndex /\ cursor_at < Len(_queue)
    /\ _queue[cursor_at + 1] = _current_item

\* C28: in loop=queue mode with the cursor on the track at index i of an
\* n-track queue, get returns the track at index (i+1) mod n, makes it
\* the cursor and leaves the queue as it was.
C28_LoopQueue ==
    [][(QueueGet /\ _loop_mode = "queue" /\ OnTrack)
       => /\ result'.res = _queue[((cursor_at + 1) % Len(_queue)) + 1]
          /\ _current_item' = result'.res
          /\ _queue' = _queue]_vars

\* C29: get on a queue with no items raises QueueEmpty in every loop mode.
C29_Empty ==
    [][(QueueGet /\ _queue = <<>>) => result'.res = "QueueEmpty"]_vars

\* C30: in queue-loop mode a get on a queue with items returns with the
\* cursor a member of the queue; a cursor that is not in the queue is
\* re-synced to the track at index 0.
C30_Resync ==
    [][(QueueGet /\ _loop_mode = "queue" /\ _queue # <<>>)
       => /\ result'.res \in Items \cup {NoItem}
          /\ In(_current_item', _queue')
          /\ ~In(_current_item, _queue) => _current_item' = _queue[1]]_vars

\* a step that takes the queue out of queue-loop mode
LeavesQueueMode ==
    /\ _loop_mode = "queue"
    /\ \/ DisableLoop
       \/ \E mode \in LoopModes \ {"queue"} : SetLoopMode(mode)

\* C31: switching a queue out of queue-loop mode, by disable_loop or by
\* set_loop_mode to another mode, leaves in the queue exactly the tracks
\* that were after the cursor, in their order; disable_loop sets the loop
\* mode to none.
C31_LeaveLoop ==
    [][(LeavesQueueMode /\ OnTrack)
       => /\ _queue' = From(_queue, cursor_at + 1)
          /\ _loop_mode' # "queue"
          /\ DisableLoop => _loop_mode' = "None"]_vars

\* C32: the delay of the k-th of the delay() calls that follow each other
\* with no more than the reset time between them lies in
\* [0, base * 2^min(k, 10)]; a call made more than base * 2^11 after the
\* previous one is a first call again, its delay lies in [0, 2 * base].
C32_Window ==
    streak > 0 => (retry >= 0 /\ retry <= backoff._base * 2^Min(streak, 10))

\* the window has stopped growing: the 12th call in a row drew its upper end
C32_Witness ==
    /\ streak = 12
    /\ retry = backoff._base * 2^10

\* C34: across the websocket-close failures of one node connection that
\* follow each other the reconnect delay window doubles, up to
\* base * 2^10: the exponent is carried over from the previous failure.
C34_Doubles ==
    [][\A n \in Nodes :
         (ListenOnClose(n) /\ retry_window[n] # 0)
         => retry_window'[n] = Min(2 * retry_window[n], ListenBase * 2^10)]_vars

\* C33: when the voice server update arrived first, the voice state
\* update with a valid channel id that follows sends the voice PATCH.
C33_EitherOrder ==
    [][\A g \in Guilds, sid \in VoiceSessions, token \in VoiceEvents \cup {"absent"} :
         (OnVoiceStateUpdate(g, sid, TRUE, token) /\ _voice_state[g].event # "absent")
         => \E i \in 1..Len(rest') :
                /\ rest'[i].kind = "voice" /\ rest'[i].method = "PATCH"
                /\ rest'[i].guild = g]_vars

\* C35: after Node.disconnect returned no reconnect of the node takes
\* place: its listen loop neither sleeps nor receives, and a reconnect
\* task the loop made before does not open the websocket or make the node
\* available.
C35_NoReconnect ==
    [][\A n \in Nodes :
         disc_pc[n] = "done"
         => /\ _task[n] \notin {"sleep", "recv"}
            /\ Reconnect(n) => (_websocket'[n] # "open" /\ ~_available'[n])]_vars

\* C36: a node message handled after destroy removed the guild's player
\* from the node's map is dropped and changes no player's state.
C36_Dropped ==
    [][\A n \in Nodes :
         (/\ HandleWsMsg(n)
          /\ pstate[Head(ws_tasks[n]).guild] = "destroyed")
         => /\ result'.res = "dropped"
            /\ UNCHANGED <<playerVars, last_update, mirrorVars>>]_vars

\* a playerUpdate saying "connected" was handled after destroy and dropped
C36_Witness ==
    /\ result = Result("playerUpdate", "g1", "dropped")
    /\ pstate["g1"] = "destroyed"
    /\ last_update["g1"] # "true"
    /\ ~_is_connected["g1"]

\* C37: every Queue.get call terminates, by returning or by raising
\* QueueEmpty; it does not call itself without end, also not in queue-loop
\* mode with a cursor that is no longer in the queue.
C37_GetTerminates ==
    [][QueueGet => result'.res # "RecursionError"]_vars

\* C38: every element of the queue is a track; set_loop_mode never puts a
\* None into it.
C38_OnlyTracks ==
    \A i \in 1..Len(_queue) : _queue[i] \in Items

\* C39: a queue made with a max_size never holds more tracks than that.
C39_AtMostMaxSize ==
    max_size # NoMax => Len(_queue) <= max_size

\* C40: in every state a player is in the player map of at most one node,
\* the node it is bound to.
C40_OneMap ==
    \A g \in Guilds : \A n \in Nodes : g \in _players[n] => _node[g] = n

\* a player moved by _swap_node: registered with the node it was moved to and
\* with no other
C40_Witness ==
    /\ result.op = "_swap_node"
    /\ _node["g1"] = "n2"
    /\ "g1" \in _players["n2"]
    /\ "g1" \notin _players["n1"]

====
